---- MODULE Spec2Model ----
(***************************************************************************)
(* Model of the signing and verification core of the Apinator Node SDK:    *)
(* crypto.ts (signRequest / signChannel / signWebhookPayload), auth.ts      *)
(* (authenticateChannel), webhook.ts (verifyWebhook) and client.ts (the      *)
(* Apinator client: trigger, getChannels, getChannel).                      *)
(*                                                                         *)
(* A JavaScript string is a sequence of one-character strings.  An          *)
(* optional value is a record [some, v].  A call that may throw yields a    *)
(* completion record [threw, value].                                        *)
(***************************************************************************)
EXTENDS Integers, Sequences, FiniteSets, TLC

VARIABLES now, last, call, flight

vars == <<now, last, call, flight>>

(***************************************************************************)
(* Bounds of the model.                                                    *)
(***************************************************************************)
\* The clock (Unix seconds) runs over 0..MaxNow.
MaxNow == 3
\* Numeric timestamp headers are the decimal strings of -1..MaxTimestamp.
MaxTimestamp == 3
\* maxAge, when supplied, ranges over -1..MaxMaxAge.
MaxMaxAge == 1

(***************************************************************************)
(* Characters and strings.                                                 *)
(***************************************************************************)
\* The printable ASCII characters, code 32 to 126, in code order (the grave
\* accent, code 96, is written "<96>": it plays no part in the SDK).
Ascii ==
  <<" ", "!", "\"", "#", "$", "%", "&", "'", "(", ")", "*", "+", ",", "-", ".", "/",
    "0", "1", "2", "3", "4", "5", "6", "7", "8", "9", ":", ";", "<", "=", ">", "?",
    "@", "A", "B", "C", "D", "E", "F", "G", "H", "I", "J", "K", "L", "M", "N", "O",
    "P", "Q", "R", "S", "T", "U", "V", "W", "X", "Y", "Z", "[", "\\", "]", "^", "_",
    "<96>", "a", "b", "c", "d", "e", "f", "g", "h", "i", "j", "k", "l", "m", "n", "o",
    "p", "q", "r", "s", "t", "u", "v", "w", "x", "y", "z", "{", "|", "}", "~">>

AsciiChars == {Ascii[i] : i \in 1..Len(Ascii)}

\* UTF-8 code of a character (one byte for ASCII; "\n" is 10).
CodeTable == [c \in AsciiChars |-> 31 + (CHOOSE i \in 1..Len(Ascii) : Ascii[i] = c)]

CharCode(c) == IF c = "\n" THEN 10 ELSE CodeTable[c]

Utf8(s) == [i \in 1..Len(s) |-> CharCode(s[i])]

Min(S) == CHOOSE x \in S : \A y \in S : x <= y

\* String.prototype.toLowerCase, per character.
ToLowerChar(c) ==
  IF c \in AsciiChars /\ CodeTable[c] >= 65 /\ CodeTable[c] <= 90
  THEN Ascii[CodeTable[c] + 32 - 31]
  ELSE c

ToLowerCase(s) == [i \in 1..Len(s) |-> ToLowerChar(s[i])]

ToUpperChar(c) ==
  IF c \in AsciiChars /\ CodeTable[c] >= 97 /\ CodeTable[c] <= 122
  THEN Ascii[CodeTable[c] - 32 - 31]
  ELSE c

\* String.prototype.startsWith
StartsWith(s, p) == Len(s) >= Len(p) /\ SubSeq(s, 1, Len(p)) = p

\* String.prototype.slice(n)
Slice(s, n) == SubSeq(s, n + 1, Len(s))

Digits == <<"0", "1", "2", "3", "4", "5", "6", "7", "8", "9">>

DigitChars == {Digits[i] : i \in 1..10}

DigitVal(c) == (CHOOSE i \in 1..10 : Digits[i] = c) - 1

RECURSIVE NatToString(_)
NatToString(n) ==
  IF n < 10 THEN <<Digits[n + 1]>> ELSE NatToString(n \div 10) \o <<Digits[(n % 10) + 1]>>

\* Number.prototype.toString() of an integer.
NumberToString(n) == IF n < 0 THEN <<"-">> \o NatToString(-n) ELSE NatToString(n)

RECURSIVE DigitsValue(_)
DigitsValue(ds) ==
  IF ds = <<>> THEN 0
  ELSE 10 * DigitsValue(SubSeq(ds, 1, Len(ds) - 1)) + DigitVal(ds[Len(ds)])

(***************************************************************************)
(* Optional values and completions.                                        *)
(***************************************************************************)
Undefined == [some |-> FALSE, v |-> <<>>]

Some(s) == [some |-> TRUE, v |-> s]

NoNumber == [some |-> FALSE, v |-> 0]

SomeNumber(n) == [some |-> TRUE, v |-> n]

Returned(x) == [threw |-> FALSE, value |-> x]

Thrown == [threw |-> TRUE, value |-> FALSE]

(***************************************************************************)
(* Node primitives used by the SDK.                                        *)
(***************************************************************************)
\* Bytes of a SHA-256 digest.
DigestBytes == 32

HexDigits == <<"0", "1", "2", "3", "4", "5", "6", "7", "8", "9", "a", "b", "c", "d", "e", "f">>

UpperHexDigits == <<"0", "1", "2", "3", "4", "5", "6", "7", "8", "9", "A", "B", "C", "D", "E", "F">>

LowerHexChars == {HexDigits[i] : i \in 1..16}

HexChars == LowerHexChars \cup {UpperHexDigits[i] : i \in 1..16}

\* Value of a hex digit of either case.
HexVal(c) ==
  IF c \in LowerHexChars
  THEN (CHOOSE i \in 1..16 : HexDigits[i] = c) - 1
  ELSE (CHOOSE i \in 1..16 : UpperHexDigits[i] = c) - 1

\* digest("hex"): two lowercase hex digits per byte.
HexEncode(bytes) ==
  [i \in 1..(2 * Len(bytes)) |->
     IF i % 2 = 1 THEN HexDigits[(bytes[(i + 1) \div 2] \div 16) + 1]
     ELSE HexDigits[(bytes[i \div 2] % 16) + 1]]

\* Buffer.from(s, "hex"): Len(s) \div 2 digit pairs are read, a trailing single
\* digit is dropped, and decoding stops without an error at the first pair
\* that holds a character that is no hex digit.
BufferFromHex(s) ==
  LET n == Len(s) \div 2
      bad == {i \in 1..n : s[2 * i - 1] \notin HexChars \/ s[2 * i] \notin HexChars}
      k == IF bad = {} THEN n ELSE Min(bad) - 1
  IN [i \in 1..k |-> 16 * HexVal(s[2 * i - 1]) + HexVal(s[2 * i])]

\* crypto.timingSafeEqual: throws a RangeError when the byte lengths differ.
TimingSafeEqual(a, b) == IF Len(a) # Len(b) THEN Thrown ELSE Returned(a = b)

\* Bytes of an MD5 digest.
Md5Bytes == 16

\* Weighted sum of the bytes of raw at positions i, i + width, i + 2 * width...
RECURSIVE FoldChunks(_, _, _, _)
FoldChunks(raw, width, i, k) ==
  IF i + k * width > Len(raw) THEN 0
  ELSE raw[i + k * width] * (k + 2) + FoldChunks(raw, width, i, k + 1)

\* A digest of width bytes of the byte string raw, modelled as collision-free
\* on the texts of the model.  A string that fits is kept and zero-padded, so
\* distinct short strings have distinct digests by construction.  A longer
\* string is folded chunk by chunk, weighted by chunk number and length,
\* modulo the prime 251: two strings that differ in one byte have distinct
\* digests, and a folded digest (every byte below 251) never equals a padded
\* one (which holds the closing byte 254).
Digest(raw, width) ==
  IF Len(raw) <= width
  THEN [i \in 1..width |-> IF i <= Len(raw) THEN raw[i] ELSE 0]
  ELSE [i \in 1..width |-> (Len(raw) * i + FoldChunks(raw, width, i, 0)) % 251]

\* createHmac("sha256", secret).update(input, "utf8").digest(): a keyed
\* digest of DigestBytes bytes of the bytes of the key and of the input (all
\* below 128), each closed by a byte no UTF-8 text of the model holds.
HmacSha256(secret, input) ==
  Digest(Utf8(secret) \o <<255>> \o Utf8(input) \o <<254>>, DigestBytes)

\* createHash("md5").update(data, "utf8").digest()
Md5(data) == Digest(Utf8(data) \o <<254>>, Md5Bytes)

\* parseInt(s, 10): leading white space is skipped, one sign is read, then the
\* longest run of decimal digits; NaN (NoNumber) when that run is empty.
ParseInt(s) ==
  LET n == Len(s)
      start == Min({i \in 1..(n + 1) : i = n + 1 \/ s[i] \notin {" ", "\n"}})
      signed == start <= n /\ s[start] \in {"+", "-"}
      neg == start <= n /\ s[start] = "-"
      d0 == IF signed THEN start + 1 ELSE start
      dEnd == Min({i \in d0..(n + 1) : i = n + 1 \/ s[i] \notin DigitChars})
      ds == SubSeq(s, d0, dEnd - 1)
  IN IF ds = <<>> THEN NoNumber
     ELSE SomeNumber((IF neg THEN -1 ELSE 1) * DigitsValue(ds))

(***************************************************************************)
(* crypto.ts                                                               *)
(***************************************************************************)
\* md5Hex(data)
Md5Hex(data) == HexEncode(Md5(data))

\* Variant: the body digest is the MD5 of the body for every body.
SignRequestAlwaysMd5(secret, method, path, body, timestamp) ==
  LET bodyMD5 == Md5Hex(body)
      sigString == NumberToString(timestamp) \o <<"\n">> \o method \o <<"\n">>
                     \o path \o <<"\n">> \o bodyMD5
  IN HexEncode(HmacSha256(secret, sigString))

\* Variant: the method is left out of the signed string.
SignRequestWithoutMethod(secret, method, path, body, timestamp) ==
  LET bodyMD5 == IF body = <<>> THEN <<>> ELSE Md5Hex(body)
      sigString == NumberToString(timestamp) \o <<"\n">> \o path \o <<"\n">> \o bodyMD5
  IN HexEncode(HmacSha256(secret, sigString))

\* signRequest(secret, method, path, body, timestamp); the template literal
\* writes the number timestamp in decimal.
SignRequest(secret, method, path, body, timestamp) ==
  LET bodyMD5 == IF body = <<>> THEN <<>> ELSE Md5Hex(body)
      sigString == NumberToString(timestamp) \o <<"\n">> \o method \o <<"\n">>
                     \o path \o <<"\n">> \o bodyMD5
  IN HexEncode(HmacSha256(secret, sigString))

SignChannel(secret, socketId, channelName, channelData) ==
  LET sigString ==
        IF channelData.some /\ channelData.v # <<>>
        THEN socketId \o <<":">> \o channelName \o <<":">> \o channelData.v
        ELSE socketId \o <<":">> \o channelName
  IN HexEncode(HmacSha256(secret, sigString))

SignWebhookPayload(secret, timestamp, payload) ==
  LET input == timestamp \o <<".">> \o payload
  IN HexEncode(HmacSha256(secret, input))

(***************************************************************************)
(* auth.ts                                                                 *)
(***************************************************************************)
\* Variant: channel_data is set only for a truthy channelData.
AuthenticateChannelTruthy(secret, key, socketId, channelName, channelData) ==
  LET signature == SignChannel(secret, socketId, channelName, channelData)
      response == [auth |-> key \o <<":">> \o signature]
  IN IF channelData.some /\ channelData.v # <<>>
     THEN [auth |-> response.auth, channel_data |-> channelData.v]
     ELSE response

AuthenticateChannel(secret, key, socketId, channelName, channelData) ==
  LET signature == SignChannel(secret, socketId, channelName, channelData)
      response == [auth |-> key \o <<":">> \o signature]
  IN IF channelData.some
     THEN [auth |-> response.auth, channel_data |-> channelData.v]
     ELSE response

(***************************************************************************)
(* webhook.ts                                                              *)
(*                                                                         *)
(* A header map is the sequence of its entries [k, v] in Object.entries    *)
(* order, with distinct keys.  A header value is [kind, str, arr] with     *)
(* kind "string", "array" or "undefined"; an array element is a string     *)
(* (Some) or not a string (Undefined).                                     *)
(***************************************************************************)
StringValue(s) == [kind |-> "string", str |-> s, arr |-> <<>>]

ArrayValue(a) == [kind |-> "array", str |-> <<>>, arr |-> a]

UndefinedValue == [kind |-> "undefined", str |-> <<>>, arr |-> <<>>]

\* v.find((entry) => typeof entry === "string")
FindString(arr) ==
  LET hits == {i \in 1..Len(arr) : arr[i].some}
  IN IF hits = {} THEN Undefined ELSE arr[Min(hits)]

\* Variant: the header name is matched exactly.
GetHeaderCaseSensitive(headers, key) ==
  LET hits == {i \in 1..Len(headers) : headers[i].k = key}
  IN IF hits = {} THEN Undefined
     ELSE LET v == headers[Min(hits)].v
          IN CASE v.kind = "string" -> Some(v.str)
               [] v.kind = "array" -> FindString(v.arr)
               [] OTHER -> Undefined

GetHeaderCaseInsensitive(headers, key) ==
  LET lowerKey == ToLowerCase(key)
      hits == {i \in 1..Len(headers) : ToLowerCase(headers[i].k) = lowerKey}
  IN IF hits = {} THEN Undefined
     ELSE LET v == headers[Min(hits)].v
          IN CASE v.kind = "string" -> Some(v.str)
               [] v.kind = "array" -> FindString(v.arr)
               [] OTHER -> Undefined

SignatureHeaderName ==
  <<"x", "-", "r", "e", "a", "l", "t", "i", "m", "e", "-",
    "s", "i", "g", "n", "a", "t", "u", "r", "e">>

TimestampHeaderName ==
  <<"x", "-", "r", "e", "a", "l", "t", "i", "m", "e", "-",
    "t", "i", "m", "e", "s", "t", "a", "m", "p">>

Sha256Prefix == <<"s", "h", "a", "2", "5", "6", "=">>

\* Variant: only the empty string is taken as missing.
FalsyEmptyOnly(x) == x.some /\ x.v = <<>>

\* !x of an optional string: undefined and "" are falsy.
Falsy(x) == ~x.some \/ x.v = <<>>

\* Variant: the prefix is cut one character short.
StripPrefixSliceSix(signatureHeader) ==
  IF ~signatureHeader.some THEN Thrown
  ELSE IF StartsWith(signatureHeader.v, Sha256Prefix)
  THEN Returned(Slice(signatureHeader.v, 6))
  ELSE Returned(signatureHeader.v)

\* Variant: the prefix is matched without regard to letter case.
StripPrefixAnyCase(signatureHeader) ==
  IF ~signatureHeader.some THEN Thrown
  ELSE IF StartsWith(ToLowerCase(signatureHeader.v), Sha256Prefix)
  THEN Returned(Slice(signatureHeader.v, 7))
  ELSE Returned(signatureHeader.v)

\* signatureHeader.startsWith("sha256=") ? signatureHeader.slice(7) : signatureHeader
\* A TypeError is thrown when signatureHeader is undefined.
StripPrefix(signatureHeader) ==
  IF ~signatureHeader.some THEN Thrown
  ELSE IF StartsWith(signatureHeader.v, Sha256Prefix)
  THEN Returned(Slice(signatureHeader.v, 7))
  ELSE Returned(signatureHeader.v)

\* `${x}` and parseInt(x, 10) of an optional string: undefined reads "undefined".
Interpolate(x) == IF x.some THEN x.v ELSE <<"u", "n", "d", "e", "f", "i", "n", "e", "d">>

\* Variant: a webhook exactly maxAge seconds old is too old.
FreshnessOkExclusive(timestamp, maxAge, currentTime) ==
  IF maxAge.some
  THEN LET webhookTime == ParseInt(timestamp)
       IN IF ~webhookTime.some THEN FALSE
          ELSE LET age == currentTime - webhookTime.v
               IN ~(age >= maxAge.v \/ age < 0)
  ELSE TRUE

\* Variant: an omitted maxAge is read as 0 and checked.
FreshnessOkAlways(timestamp, maxAge, currentTime) ==
  LET webhookTime == ParseInt(timestamp)
  IN IF ~webhookTime.some THEN FALSE
     ELSE LET age == currentTime - webhookTime.v
          IN ~(age > maxAge.v \/ age < 0)

\* Variant: a webhook from the past never expires.
FreshnessOkNeverExpires(timestamp, maxAge, currentTime) ==
  IF maxAge.some
  THEN LET webhookTime == ParseInt(timestamp)
       IN IF ~webhookTime.some THEN FALSE
          ELSE LET age == currentTime - webhookTime.v
               IN ~(age < 0)
  ELSE TRUE

\* The freshness check of verifyWebhook: TRUE when the call goes on to the
\* signature comparison.
FreshnessOk(timestamp, maxAge, currentTime) ==
  IF maxAge.some
  THEN LET webhookTime == ParseInt(timestamp)
       IN IF ~webhookTime.some THEN FALSE
          ELSE LET age == currentTime - webhookTime.v
               IN ~(age > maxAge.v \/ age < 0)
  ELSE TRUE

\* Variant: only the byte lengths are compared.
CompareSignaturesLengthOnly(actualSignature, expectedSignature) ==
  LET actualBuffer == BufferFromHex(actualSignature)
      expectedBuffer == BufferFromHex(expectedSignature)
  IN Returned(Len(actualBuffer) = Len(expectedBuffer))

\* The body of the try block of verifyWebhook.
CompareSignatures(actualSignature, expectedSignature) ==
  LET actualBuffer == BufferFromHex(actualSignature)
      expectedBuffer == BufferFromHex(expectedSignature)
  IN IF Len(actualBuffer) # Len(expectedBuffer)
     THEN Returned(FALSE)
     ELSE TimingSafeEqual(actualBuffer, expectedBuffer)

\* try { ... } catch { return false; }
CatchReturnFalse(completion) == IF completion.threw THEN Returned(FALSE) ELSE completion

\* Variant: with maxAge the signature is recomputed over the parsed integer.
VerifyWebhookSignsParsed(secret, headers, body, maxAge, currentTime) ==
  LET signatureHeader == GetHeaderCaseInsensitive(headers, SignatureHeaderName)
      timestamp == GetHeaderCaseInsensitive(headers, TimestampHeaderName)
      actualSignature == StripPrefix(signatureHeader)
      webhookTime == ParseInt(Interpolate(timestamp))
      signedTimestamp == IF maxAge.some /\ webhookTime.some
                         THEN NumberToString(webhookTime.v)
                         ELSE Interpolate(timestamp)
  IN IF Falsy(signatureHeader) THEN Returned(FALSE)
     ELSE IF actualSignature.threw THEN Thrown
     ELSE IF Falsy(timestamp) THEN Returned(FALSE)
     ELSE IF ~FreshnessOk(Interpolate(timestamp), maxAge, currentTime) THEN Returned(FALSE)
     ELSE CatchReturnFalse(
            CompareSignatures(actualSignature.value,
                              SignWebhookPayload(secret, signedTimestamp, body)))

\* verifyWebhook(secret, headers, body, maxAge) run when Date.now() / 1000,
\* floored, is currentTime.  The result is a completion.
VerifyWebhook(secret, headers, body, maxAge, currentTime) ==
  LET signatureHeader == GetHeaderCaseInsensitive(headers, SignatureHeaderName)
      timestamp == GetHeaderCaseInsensitive(headers, TimestampHeaderName)
      actualSignature == StripPrefix(signatureHeader)
  IN IF Falsy(signatureHeader) THEN Returned(FALSE)
     ELSE IF actualSignature.threw THEN Thrown
     ELSE IF Falsy(timestamp) THEN Returned(FALSE)
     ELSE IF ~FreshnessOk(Interpolate(timestamp), maxAge, currentTime) THEN Returned(FALSE)
     ELSE CatchReturnFalse(
            CompareSignatures(actualSignature.value,
                              SignWebhookPayload(secret, Interpolate(timestamp), body)))

(***************************************************************************)
(* Inputs of the calls.                                                    *)
(***************************************************************************)
Secrets == {<<"k">>, <<"w">>}

Bodies == {<<>>, <<"a">>, <<".", "a">>}

\* Timestamp header values: the decimal integers -1..MaxTimestamp, and
\* strings that are empty, padded, signed, or not numeric.
NumericTimestamps == {NumberToString(t) : t \in -1..MaxTimestamp}

OddTimestamps ==
  {<<>>, <<"0", "1">>, <<" ", "1">>, <<"+", "1">>, <<"1", "x">>, <<"1", ".">>, <<"x">>}

Timestamps == NumericTimestamps \cup OddTimestamps

NoMaxAge == NoNumber

MaxAges == {NoMaxAge} \cup {SomeNumber(m) : m \in -1..MaxMaxAge}

UpperPrefix == <<"S", "H", "A", "2", "5", "6", "=">>

ToUpperCase(s) == [i \in 1..Len(s) |-> ToUpperChar(s[i])]

\* The ways a sender writes the signature header from the digest string h.
SignatureForms(h) ==
  { h,
    Sha256Prefix \o h,
    Sha256Prefix \o Sha256Prefix \o h,
    UpperPrefix \o h,
    ToUpperCase(h),
    h \o <<"z">>,
    h \o <<"z", "z">>,
    h \o <<"a">>,
    h \o <<"a", "b">>,
    Sha256Prefix \o h \o <<"-", "x">>,
    SubSeq(h, 1, Len(h) - 1),
    SubSeq(h, 1, Len(h) - 2),
    <<"z">> \o SubSeq(h, 2, Len(h)),
    SubSeq(h, 1, Len(h) - 1) \o <<"g">>,
    SubSeq(h, 1, Len(h) - 1) \o <<"1">>,
    <<"a", "b", "c", "1", "2", "3">>,
    <<"n", "o", "t", "-", "h", "e", "x">>,
    Sha256Prefix,
    <<>> }

SigEntry(k, v) == [k |-> k, v |-> v]

PlainHeaders(sig, ts) ==
  << SigEntry(SignatureHeaderName, StringValue(sig)),
     SigEntry(TimestampHeaderName, StringValue(ts)) >>

\* A header name with the letters at the positions of mask in upper case.
WithCase(name, mask) ==
  [i \in 1..Len(name) |-> IF i \in mask THEN ToUpperChar(name[i]) ELSE name[i]]

CaseMasks == { {}, 1..20, {1, 3, 12}, {1, 3, 5, 7, 9, 12, 14, 16, 18, 20}, 3..10 }

\* The two shapes of one header value: a string, a one-element string array.
Shapes(s) == {StringValue(s), ArrayValue(<<Some(s)>>)}

\* Header maps of two entries that differ from PlainHeaders in letter case
\* and in value shape only.
CasedHeaders(sig, ts) ==
  { << SigEntry(WithCase(SignatureHeaderName, m1), v1),
       SigEntry(WithCase(TimestampHeaderName, m2), v2) >> :
      <<m1, m2, v1, v2>> \in CaseMasks \X CaseMasks \X Shapes(sig) \X Shapes(ts) }

OtherValue == <<"o">>

\* The values a framework may hand over for a header whose text is s.
ValueVariants(s) ==
  { StringValue(s),
    ArrayValue(<<Some(s)>>),
    ArrayValue(<<>>),
    ArrayValue(<<Undefined>>),
    ArrayValue(<<Undefined, Some(s)>>),
    ArrayValue(<<Some(s), Some(OtherValue)>>),
    ArrayValue(<<Some(OtherValue), Some(s)>>),
    UndefinedValue }

HostEntry == SigEntry(<<"h", "o", "s", "t">>, StringValue(OtherValue))

\* Header maps with missing, duplicated, reordered and extra entries.
ShapedHeaders(sv, tv) ==
  LET sigE == SigEntry(SignatureHeaderName, sv)
      tsE == SigEntry(TimestampHeaderName, tv)
      sigDup == SigEntry(ToUpperCase(SignatureHeaderName), UndefinedValue)
      tsDup == SigEntry(ToUpperCase(TimestampHeaderName), UndefinedValue)
  IN { <<sigE, tsE>>, <<tsE, sigE>>, <<sigE>>, <<tsE>>, <<>>,
       <<HostEntry, sigE, tsE>>,
       <<sigDup, sigE, tsE>>, <<sigE, sigDup, tsE>>,
       <<sigE, tsDup, tsE>>, <<sigE, tsE, tsDup>> }

OddHeaders(sig, ts) ==
  UNION { ShapedHeaders(sv, StringValue(ts)) : sv \in ValueVariants(sig) }
  \cup UNION { ShapedHeaders(StringValue(sig), tv) : tv \in ValueVariants(ts) }

WebhookCall(secret, headers, body, maxAge) ==
  [secret |-> secret, headers |-> headers, body |-> body, maxAge |-> maxAge]

\* The (secret, timestamp, body) triples a sender may have signed when the
\* receiver verifies (secret, ts, body): the same triple, one with exactly one
\* field changed, or one whose signed string is the same.
SignedTriples(secret, ts, body) ==
  { x \in Secrets \X Timestamps \X Bodies :
      \/ Cardinality({i \in 1..3 : x[i] # <<secret, ts, body>>[i]}) <= 1
      \/ /\ x[1] = secret
         /\ x[2] \o <<".">> \o x[3] = ts \o <<".">> \o body }

\* Calls that vary what was signed, with plain headers.
SignedCalls ==
  UNION { { WebhookCall(v[1], PlainHeaders(sig, v[2]), v[3], m) :
              <<sig, m>> \in
                (UNION { {SignWebhookPayload(x[1], x[2], x[3]),
                          Sha256Prefix \o SignWebhookPayload(x[1], x[2], x[3])} :
                         x \in SignedTriples(v[1], v[2], v[3]) }) \X MaxAges } :
          v \in Secrets \X Timestamps \X Bodies }

FormTimestamps == {<<"1">>, <<"x">>}

\* Calls that vary how the signature header is written.
FormCalls ==
  UNION { { WebhookCall(v[1], PlainHeaders(sig, v[2]), <<"a">>, m) :
              <<sig, m>> \in SignatureForms(SignWebhookPayload(v[1], v[2], <<"a">>))
                             \X {NoMaxAge, SomeNumber(MaxMaxAge)} } :
          v \in Secrets \X FormTimestamps }

LayoutTimestamps == {<<>>, <<"1">>, <<"x">>}

LayoutSignatures(ts) ==
  { SignWebhookPayload(<<"k">>, ts, <<"a">>),
    Sha256Prefix \o SignWebhookPayload(<<"k">>, ts, <<"a">>),
    SignWebhookPayload(<<"w">>, ts, <<"a">>),
    <<>> }

\* Calls that vary the header map.
LayoutCalls ==
  UNION { { WebhookCall(<<"k">>, h, <<"a">>, m) :
              <<h, m>> \in
                (UNION { CasedHeaders(sig, ts) \cup OddHeaders(sig, ts) :
                         sig \in LayoutSignatures(ts) })
                \X {NoMaxAge, SomeNumber(MaxMaxAge)} } :
          ts \in LayoutTimestamps }

WebhookCalls == SignedCalls \cup FormCalls \cup LayoutCalls

Keys == {<<"K">>, <<"K", ":">>}

SocketIds == {<<"1", ".", "2">>, <<"1">>, <<"1", ":", "p">>}

ChannelNames == {<<"p">>, <<"p", ":", "d">>, <<"q">>}

ChannelDatas == {Undefined, Some(<<>>), Some(<<"d">>), Some(<<"p", ":", "d">>)}

\* Arguments of signRequest.
Methods == {<<"G", "E", "T">>, <<"P", "O", "S", "T">>}

SignPaths == {<<"/", "a">>, <<"/", "a", "?", "b">>, <<"/", "b">>}

RequestBodies == {<<>>, <<"b">>, <<"{", "\"", "n", "\"", ":", "\"", "o", "r", "d", "e", "r", ".", "c", "r", "e", "a", "t", "e", "d", "!", "\"", "}">>}

(***************************************************************************)
(* client.ts                                                               *)
(*                                                                         *)
(* A JavaScript value of the model is a record with a kind: "undefined",   *)
(* "null", "string" (str), "array" (items, a sequence of strings) or       *)
(* "object" (entries, the sequence of its members [k, v] in insertion      *)
(* order).  An error is a record with the name of its class and its        *)
(* message; an ApiError also has status and body.                          *)
(***************************************************************************)
JsUndefined == [kind |-> "undefined"]

JsNull == [kind |-> "null"]

JsString(s) == [kind |-> "string", str |-> s]

JsArray(items) == [kind |-> "array", items |-> items]

JsObject(entries) == [kind |-> "object", entries |-> entries]

\* !x for the values of the model: undefined, null and "" are falsy; every
\* array and object is truthy.
Truthy(x) ==
  /\ x.kind \notin {"undefined", "null"}
  /\ x.kind = "string" => x.str # <<>>

\* errors.ts
RealtimeError(message) == [name |-> "RealtimeError", message |-> message]

AuthenticationError(message) == [name |-> "AuthenticationError", message |-> message]

ValidationError(message) == [name |-> "ValidationError", message |-> message]

ApiError(message, status, body) ==
  [name |-> "ApiError", message |-> message, status |-> status, body |-> body]

\* error instanceof ApiError || ... || error instanceof RealtimeError
IsSdkError(error) ==
  error.name \in {"ApiError", "AuthenticationError", "ValidationError", "RealtimeError"}

\* A settled promise.
Resolved(value) == [state |-> "resolved", value |-> value]

Rejected(error) == [state |-> "rejected", error |-> error]

\* encodeURIComponent on ASCII text: letters, digits and - _ . ! ~ * ' ( )
\* are kept, every other character becomes % and two uppercase hex digits.
UnreservedMarks == {"-", "_", ".", "!", "~", "*", "'", "(", ")"}

EncodeChar(c) ==
  IF c \in DigitChars \/ c \in UnreservedMarks \/ ToLowerChar(c) # ToUpperChar(c)
  THEN <<c>>
  ELSE <<"%", UpperHexDigits[(CharCode(c) \div 16) + 1],
              UpperHexDigits[(CharCode(c) % 16) + 1]>>

RECURSIVE EncodeURIComponent(_)
EncodeURIComponent(s) ==
  IF s = <<>> THEN <<>> ELSE EncodeChar(Head(s)) \o EncodeURIComponent(Tail(s))

\* JSON.stringify of a string: quoted, with " \ and the line feed escaped.
JsonEscapeChar(c) ==
  IF c = "\"" THEN <<"\\", "\"">>
  ELSE IF c = "\\" THEN <<"\\", "\\">>
  ELSE IF c = "\n" THEN <<"\\", "n">>
  ELSE <<c>>

RECURSIVE JsonEscape(_)
JsonEscape(s) ==
  IF s = <<>> THEN <<>> ELSE JsonEscapeChar(Head(s)) \o JsonEscape(Tail(s))

JsonQuote(s) == <<"\"">> \o JsonEscape(s) \o <<"\"">>

RECURSIVE JoinComma(_)
JoinComma(texts) ==
  IF texts = <<>> THEN <<>>
  ELSE IF Len(texts) = 1 THEN texts[1]
  ELSE texts[1] \o <<",">> \o JoinComma(Tail(texts))

\* JSON.stringify of a string or of an array of strings.
JsonStringifyValue(x) ==
  IF x.kind = "string" THEN JsonQuote(x.str)
  ELSE <<"[">> \o JoinComma([i \in 1..Len(x.items) |-> JsonQuote(x.items[i])]) \o <<"]">>

\* JSON.stringify of an object whose members are strings and arrays of
\* strings: the members in insertion order.
JsonStringify(obj) ==
  <<"{">>
    \o JoinComma([i \in 1..Len(obj.entries) |->
                    JsonQuote(obj.entries[i].k) \o <<":">>
                      \o JsonStringifyValue(obj.entries[i].v)])
    \o <<"}">>

\* The index of the quote that closes a JSON string whose text starts at
\* position j of t, or 0: a backslash escapes the character after it.
RECURSIVE StringEnd(_, _)
StringEnd(t, j) ==
  IF j > Len(t) THEN 0
  ELSE IF t[j] = "\\" THEN StringEnd(t, j + 2)
  ELSE IF t[j] = "\"" THEN j
  ELSE StringEnd(t, j + 1)

\* The string that the text between two quotes of a JSON string stands for:
\* \n is the line feed, \" and \\ are the character itself.
RECURSIVE JsonUnescape(_)
JsonUnescape(s) ==
  IF s = <<>> THEN <<>>
  ELSE IF s[1] = "\\" /\ Len(s) >= 2
       THEN <<(IF s[2] = "n" THEN "\n" ELSE s[2])>> \o JsonUnescape(SubSeq(s, 3, Len(s)))
  ELSE <<s[1]>> \o JsonUnescape(Tail(s))

\* JSON.parse of the items of an array of strings from position i on, up to
\* the closing ]: [ok, items, next], next being the position after the ].
RECURSIVE ParseItems(_, _, _)
ParseItems(t, i, acc) ==
  LET end == StringEnd(t, i + 1)
      item == JsonUnescape(SubSeq(t, i + 1, end - 1))
      failed == [ok |-> FALSE, items |-> <<>>, next |-> 0]
  IN IF i > Len(t) \/ t[i] # "\"" \/ end = 0 \/ end + 1 > Len(t) THEN failed
     ELSE IF t[end + 1] = "]"
          THEN [ok |-> TRUE, items |-> acc \o <<item>>, next |-> end + 2]
     ELSE IF t[end + 1] = "," THEN ParseItems(t, end + 2, acc \o <<item>>)
     ELSE failed

\* JSON.parse of the members of an object from position i on: each member is
\* a string key, a colon and a value that is a string or an array of strings;
\* members are separated by commas and closed by }.  The result is a
\* completion: the entries read, or a SyntaxError.
RECURSIVE ParseMembers(_, _, _)
ParseMembers(t, i, acc) ==
  LET keyEnd == StringEnd(t, i + 1)
      colon == keyEnd + 1
      valStart == keyEnd + 2
      isString == valStart <= Len(t) /\ t[valStart] = "\""
      isArray == valStart + 1 <= Len(t) /\ t[valStart] = "["
      items == IF t[valStart + 1] = "]"
               THEN [ok |-> TRUE, items |-> <<>>, next |-> valStart + 2]
               ELSE ParseItems(t, valStart + 1, <<>>)
      after == IF isString
               THEN (IF StringEnd(t, valStart + 1) = 0 THEN 0
                     ELSE StringEnd(t, valStart + 1) + 1)
               ELSE IF isArray /\ items.ok THEN items.next
               ELSE 0
      value == IF isString
               THEN JsString(JsonUnescape(SubSeq(t, valStart + 1, after - 2)))
               ELSE JsArray(items.items)
      entry == [k |-> JsonUnescape(SubSeq(t, i + 1, keyEnd - 1)), v |-> value]
      \* a later member of the same name replaces the earlier one
      kept == SelectSeq(acc, LAMBDA e : e.k # entry.k)
  IN IF i > Len(t) \/ t[i] # "\"" \/ keyEnd = 0 THEN Thrown
     ELSE IF colon > Len(t) \/ t[colon] # ":" THEN Thrown
     ELSE IF after = 0 \/ after > Len(t) THEN Thrown
     ELSE IF t[after] = "}"
          THEN IF after = Len(t) THEN Returned(kept \o <<entry>>) ELSE Thrown
     ELSE IF t[after] = ","
          THEN ParseMembers(t, after + 1, kept \o <<entry>>)
     ELSE Thrown

\* JSON.parse on the response texts of the model: null, {} and objects as
\* read by ParseMembers; every other text of the model is no JSON.
JsonParse(t) ==
  IF t = <<"n", "u", "l", "l">> THEN Returned(JsNull)
  ELSE IF t = <<"{", "}">> THEN Returned(JsObject(<<>>))
  ELSE IF Len(t) >= 2 /\ t[1] = "{"
       THEN LET members == ParseMembers(t, 2, <<>>)
            IN IF members.threw THEN Thrown
               ELSE Returned(JsObject(members.value))
  ELSE Thrown

\* obj.name for an object of the model.
Member(obj, name) ==
  LET hits == {i \in 1..Len(obj.entries) : obj.entries[i].k = name}
  IN IF hits = {} THEN JsUndefined ELSE obj.entries[Min(hits)].v

\* constructor(options)
Apinator(options) ==
  [appId |-> options.appId, key |-> options.key, secret |-> options.secret,
   host |-> <<"h", "t", "t", "p", "s", ":", "/", "/", "w", "s", "-">> \o options.cluster \o <<".", "a", "p", "i", "n", "a", "t", "o", "r", ".", "i", "o">>]

\* What a public method does before it awaits request(): it throws, or it
\* calls request(method, path, body).
Throws(error) == [threw |-> TRUE, error |-> error]

Requests(method, path, body) ==
  [threw |-> FALSE, method |-> method, path |-> path, body |-> body]

\* Variant: socket_id is written for every supplied socketId.
TriggerAnySocketId(client, params) ==
  IF Truthy(params.channel) /\ Truthy(params.channels)
  THEN Throws(ValidationError(<<"C", "a", "n", "n", "o", "t", " ", "s", "p", "e", "c", "i", "f", "y", " ", "b", "o", "t", "h", " ", "'", "c", "h", "a", "n", "n", "e", "l", "'", " ", "a", "n", "d", " ", "'", "c", "h", "a", "n", "n", "e", "l", "s", "'", " ", "p", "a", "r", "a", "m", "e", "t", "e", "r", "s">>))
  ELSE IF ~Truthy(params.channel) /\ ~Truthy(params.channels)
  THEN Throws(ValidationError(<<"M", "u", "s", "t", " ", "s", "p", "e", "c", "i", "f", "y", " ", "e", "i", "t", "h", "e", "r", " ", "'", "c", "h", "a", "n", "n", "e", "l", "'", " ", "o", "r", " ", "'", "c", "h", "a", "n", "n", "e", "l", "s", "'", " ", "p", "a", "r", "a", "m", "e", "t", "e", "r">>))
  ELSE
    LET body ==
          <<[k |-> <<"n", "a", "m", "e">>, v |-> params.name], [k |-> <<"d", "a", "t", "a">>, v |-> params.data]>>
            \o (IF Truthy(params.channel)
                THEN <<[k |-> <<"c", "h", "a", "n", "n", "e", "l">>, v |-> params.channel]>> ELSE <<>>)
            \o (IF Truthy(params.channels)
                THEN <<[k |-> <<"c", "h", "a", "n", "n", "e", "l", "s">>, v |-> params.channels]>> ELSE <<>>)
            \o (IF params.socketId.kind # "undefined"
                THEN <<[k |-> <<"s", "o", "c", "k", "e", "t", "_", "i", "d">>, v |-> params.socketId]>> ELSE <<>>)
        bodyString == JsonStringify(JsObject(body))
        path == <<"/", "a", "p", "p", "s", "/">> \o client.appId \o <<"/", "e", "v", "e", "n", "t", "s">>
    IN Requests(<<"P", "O", "S", "T">>, path, bodyString)

\* trigger(params), up to its call of request().
Trigger(client, params) ==
  IF Truthy(params.channel) /\ Truthy(params.channels)
  THEN Throws(ValidationError(<<"C", "a", "n", "n", "o", "t", " ", "s", "p", "e", "c", "i", "f", "y", " ", "b", "o", "t", "h", " ", "'", "c", "h", "a", "n", "n", "e", "l", "'", " ", "a", "n", "d", " ", "'", "c", "h", "a", "n", "n", "e", "l", "s", "'", " ", "p", "a", "r", "a", "m", "e", "t", "e", "r", "s">>))
  ELSE IF ~Truthy(params.channel) /\ ~Truthy(params.channels)
  THEN Throws(ValidationError(<<"M", "u", "s", "t", " ", "s", "p", "e", "c", "i", "f", "y", " ", "e", "i", "t", "h", "e", "r", " ", "'", "c", "h", "a", "n", "n", "e", "l", "'", " ", "o", "r", " ", "'", "c", "h", "a", "n", "n", "e", "l", "s", "'", " ", "p", "a", "r", "a", "m", "e", "t", "e", "r">>))
  ELSE
    LET body ==
          <<[k |-> <<"n", "a", "m", "e">>, v |-> params.name], [k |-> <<"d", "a", "t", "a">>, v |-> params.data]>>
            \o (IF Truthy(params.channel)
                THEN <<[k |-> <<"c", "h", "a", "n", "n", "e", "l">>, v |-> params.channel]>> ELSE <<>>)
            \o (IF Truthy(params.channels)
                THEN <<[k |-> <<"c", "h", "a", "n", "n", "e", "l", "s">>, v |-> params.channels]>> ELSE <<>>)
            \o (IF Truthy(params.socketId)
                THEN <<[k |-> <<"s", "o", "c", "k", "e", "t", "_", "i", "d">>, v |-> params.socketId]>> ELSE <<>>)
        bodyString == JsonStringify(JsObject(body))
        path == <<"/", "a", "p", "p", "s", "/">> \o client.appId \o <<"/", "e", "v", "e", "n", "t", "s">>
    IN Requests(<<"P", "O", "S", "T">>, path, bodyString)

\* getChannels(prefix?), up to its call of request().
GetChannels(client, prefix) ==
  LET base == <<"/", "a", "p", "p", "s", "/">> \o client.appId \o <<"/", "c", "h", "a", "n", "n", "e", "l", "s">>
      path == IF Truthy(prefix)
              THEN base \o <<"?", "f", "i", "l", "t", "e", "r", "_", "b", "y", "_", "p", "r", "e", "f", "i", "x", "=">> \o EncodeURIComponent(prefix.str)
              ELSE base
  IN Requests(<<"G", "E", "T">>, path, <<>>)

\* getChannel(channelName), up to its call of request().
GetChannel(client, channelName) ==
  LET encodedChannel == EncodeURIComponent(channelName)
      path == <<"/", "a", "p", "p", "s", "/">> \o client.appId \o <<"/", "c", "h", "a", "n", "n", "e", "l", "s", "/">> \o encodedChannel
  IN Requests(<<"G", "E", "T">>, path, <<>>)

\* path.split("?")[0]
BeforeQuery(path) ==
  LET marks == {i \in 1..Len(path) : path[i] = "?"}
  IN IF marks = {} THEN path ELSE SubSeq(path, 1, Min(marks) - 1)

\* The headers of a request: a function from header name to value.
RequestHeaders(key, timestampText, signature, body) ==
  LET names == {"X-Realtime-Key", "X-Realtime-Timestamp", "X-Realtime-Signature"}
                 \cup (IF body # <<>> THEN {"Content-Type"} ELSE {})
  IN [h \in names |->
        IF h = "X-Realtime-Key" THEN key
        ELSE IF h = "X-Realtime-Timestamp" THEN timestampText
        ELSE IF h = "X-Realtime-Signature" THEN signature
        ELSE <<"a", "p", "p", "l", "i", "c", "a", "t", "i", "o", "n", "/", "j", "s", "o", "n">>]

\* Variant: the path is signed with its query string.
RequestSignsFullPath(client, method, path, body, timestamp) ==
  LET signPath == path
      signature == SignRequest(client.secret, method, signPath, body, timestamp)
      url == client.host \o path
      headers == RequestHeaders(client.key, NumberToString(timestamp), signature, body)
  IN [signed |-> [method |-> method, path |-> signPath, body |-> body,
                  timestamp |-> timestamp],
      sent |-> [url |-> url, method |-> method, headers |-> headers,
                body |-> IF body # <<>> THEN Some(body) ELSE Undefined]]

\* Variant: the timestamp header is written in milliseconds.
RequestMillisHeader(client, method, path, body, timestamp) ==
  LET signPath == BeforeQuery(path)
      signature == SignRequest(client.secret, method, signPath, body, timestamp)
      url == client.host \o path
      headers == RequestHeaders(client.key, NumberToString(timestamp * 1000), signature, body)
  IN [signed |-> [method |-> method, path |-> signPath, body |-> body,
                  timestamp |-> timestamp],
      sent |-> [url |-> url, method |-> method, headers |-> headers,
                body |-> IF body # <<>> THEN Some(body) ELSE Undefined]]

\* Variant: the X-Realtime-Key header carries the secret.
RequestSecretAsKey(client, method, path, body, timestamp) ==
  LET signPath == BeforeQuery(path)
      signature == SignRequest(client.secret, method, signPath, body, timestamp)
      url == client.host \o path
      headers == RequestHeaders(client.secret, NumberToString(timestamp), signature, body)
  IN [signed |-> [method |-> method, path |-> signPath, body |-> body,
                  timestamp |-> timestamp],
      sent |-> [url |-> url, method |-> method, headers |-> headers,
                body |-> IF body # <<>> THEN Some(body) ELSE Undefined]]

\* request(method, path, body) up to its call of fetch, timestamp being
\* Math.floor(Date.now() / 1000): the arguments given to signRequest and the
\* request given to fetch.
Request(client, method, path, body, timestamp) ==
  LET signPath == BeforeQuery(path)
      signature == SignRequest(client.secret, method, signPath, body, timestamp)
      url == client.host \o path
      headers == RequestHeaders(client.key, NumberToString(timestamp), signature, body)
  IN [signed |-> [method |-> method, path |-> signPath, body |-> body,
                  timestamp |-> timestamp],
      sent |-> [url |-> url, method |-> method, headers |-> headers,
                body |-> IF body # <<>> THEN Some(body) ELSE Undefined]]

\* x || fallback for strings
OrElse(x, fallback) == IF x = <<>> THEN fallback ELSE x

\* response.ok
ResponseOk(status) == status \in 200..299

\* The message of a failed response: the detail of the problem document, else
\* its title, else the response text; a text that is no JSON, or JSON null
\* (whose property read throws inside the try), leaves the response text.
ErrorMessage(responseText) ==
  LET parsed == JsonParse(responseText)
      problem == parsed.value
      detail == Member(problem, <<"d", "e", "t", "a", "i", "l">>)
      title == Member(problem, <<"t", "i", "t", "l", "e">>)
  IN IF parsed.threw \/ problem.kind # "object" THEN responseText
     ELSE IF detail.kind = "string" /\ Len(detail.str) > 0 THEN detail.str
     ELSE IF title.kind = "string" /\ Len(title.str) > 0 THEN title.str
     ELSE responseText

\* Variant: status 403 is not an authentication failure.
RespondForbiddenAsApiError(status, responseText) ==
  LET errorMessage == ErrorMessage(responseText)
      parsed == JsonParse(responseText)
  IN IF ~ResponseOk(status)
     THEN IF status = 401
          THEN Rejected(AuthenticationError(OrElse(errorMessage, <<"A", "u", "t", "h", "e", "n", "t", "i", "c", "a", "t", "i", "o", "n", " ", "f", "a", "i", "l", "e", "d">>)))
          ELSE IF status = 400 \/ status = 422
          THEN Rejected(ValidationError(OrElse(errorMessage, <<"V", "a", "l", "i", "d", "a", "t", "i", "o", "n", " ", "f", "a", "i", "l", "e", "d">>)))
          ELSE Rejected(ApiError(OrElse(errorMessage,
                                        <<"R", "e", "q", "u", "e", "s", "t", " ", "f", "a", "i", "l", "e", "d", " ", "w", "i", "t", "h", " ", "s", "t", "a", "t", "u", "s", " ">> \o NumberToString(status)),
                                 status, responseText))
     ELSE IF responseText = <<>> THEN Resolved(JsObject(<<>>))
     ELSE IF parsed.threw
          THEN Rejected(RealtimeError(<<"F", "a", "i", "l", "e", "d", " ", "t", "o", " ", "p", "a", "r", "s", "e", " ", "r", "e", "s", "p", "o", "n", "s", "e", ":", " ">> \o responseText))
     ELSE Resolved(parsed.value)

\* request() from the response text on: the error of a failed response, or
\* the parsed body of an OK one.
Respond(status, responseText) ==
  LET errorMessage == ErrorMessage(responseText)
      parsed == JsonParse(responseText)
  IN IF ~ResponseOk(status)
     THEN IF status = 401 \/ status = 403
          THEN Rejected(AuthenticationError(OrElse(errorMessage, <<"A", "u", "t", "h", "e", "n", "t", "i", "c", "a", "t", "i", "o", "n", " ", "f", "a", "i", "l", "e", "d">>)))
          ELSE IF status = 400 \/ status = 422
          THEN Rejected(ValidationError(OrElse(errorMessage, <<"V", "a", "l", "i", "d", "a", "t", "i", "o", "n", " ", "f", "a", "i", "l", "e", "d">>)))
          ELSE Rejected(ApiError(OrElse(errorMessage,
                                        <<"R", "e", "q", "u", "e", "s", "t", " ", "f", "a", "i", "l", "e", "d", " ", "w", "i", "t", "h", " ", "s", "t", "a", "t", "u", "s", " ">> \o NumberToString(status)),
                                 status, responseText))
     ELSE IF responseText = <<>> THEN Resolved(JsObject(<<>>))
     ELSE IF parsed.threw
          THEN Rejected(RealtimeError(<<"F", "a", "i", "l", "e", "d", " ", "t", "o", " ", "p", "a", "r", "s", "e", " ", "r", "e", "s", "p", "o", "n", "s", "e", ":", " ">> \o responseText))
     ELSE Resolved(parsed.value)

\* The catch of request(): an SDK error is rethrown, any other is wrapped.
\* A thrown value that is no Error has the name "" and String(value) as its
\* message.
CatchRequest(settled) ==
  IF settled.state = "rejected" /\ ~IsSdkError(settled.error)
  THEN Rejected(RealtimeError(<<"N", "e", "t", "w", "o", "r", "k", " ", "e", "r", "r", "o", "r", ":", " ">> \o settled.error.message))
  ELSE settled

\* What a public method makes of the settled request().
Finish(op, settled) ==
  IF settled.state = "rejected" THEN settled
  ELSE IF op = "trigger" THEN Resolved(JsUndefined)
  ELSE IF op = "getChannels"
       THEN IF settled.value.kind = "null"
            THEN Rejected([name |-> "TypeError",
                           message |-> <<"C", "a", "n", "n", "o", "t", " ", "r", "e", "a", "d", " ", "p", "r", "o", "p", "e", "r", "t", "i", "e", "s", " ", "o", "f", " ", "n", "u", "l", "l", " ", "(", "r", "e", "a", "d", "i", "n", "g", " ", "'", "c", "h", "a", "n", "n", "e", "l", "s", "'", ")">>])
            ELSE Resolved(Member(settled.value, <<"c", "h", "a", "n", "n", "e", "l", "s">>))
  ELSE settled

\* Clients, arguments of their methods, and what the network answers.
ClientOptions ==
  {[appId |-> a, key |-> <<"K">>, secret |-> s, cluster |-> <<"e", "u">>] :
     a \in {<<"7">>, <<"7", "?", "x">>}, s \in Secrets}

TriggerParams ==
  {[name |-> JsString(<<"e">>), data |-> JsString(<<"{", "\"", "a", "\"", ":", "1", "}">>),
    channel |-> c, channels |-> cs, socketId |-> sid] :
     c \in {JsUndefined, JsString(<<>>), JsString(<<"c">>)},
     cs \in {JsUndefined, JsArray(<<>>), JsArray(<<<<"c">>>>), JsArray(<<<<"c">>, <<"d">>>>)},
     sid \in {JsUndefined, JsString(<<>>), JsString(<<"1", ".", "2">>)}}

Prefixes == {JsUndefined, JsString(<<>>), JsString(<<"p", "-">>), JsString(<<"a", "?", "b">>)}

InfoChannelNames == {<<"c">>, <<"a", "?", "b">>, <<"a", " ", "b">>}

Statuses == {200, 400, 401, 403, 404, 422, 500}

ResponseTexts ==
  {<<>>, <<"o", "o", "p", "s">>, <<"n", "u", "l", "l">>, <<"{", "\"", "c", "h", "a", "n", "n", "e", "l", "s", "\"", ":", "[", "]", "}">>,
   <<"{", "\"", "t", "i", "t", "l", "e", "\"", ":", "\"", "t", "\"", ",", "\"", "d", "e", "t", "a", "i", "l", "\"", ":", "\"", "d", "\"", "}">>, <<"{", "\"", "t", "i", "t", "l", "e", "\"", ":", "\"", "t", "\"", ",", "\"", "d", "e", "t", "a", "i", "l", "\"", ":", "\"", "\"", "}">>}

\* What fetch or response.text() rejects with: an Error, or a thrown string.
Failures ==
  {[name |-> "TypeError", message |-> <<"f", "e", "t", "c", "h", " ", "f", "a", "i", "l", "e", "d">>],
   [name |-> "", message |-> <<"b", "o", "o", "m">>]}

(***************************************************************************)
(* The state machine: a caller of the SDK.  now is the Unix second that     *)
(* Date.now() yields; last is the call whose result the caller holds, with  *)
(* its arguments, or Idle.                                                  *)
(***************************************************************************)
Idle == [op |-> "none"]

\* No client call is in flight.
NoCall == [pc |-> "none"]

\* No shared Apinator instance is constructed.
NoInstance == [constructed |-> FALSE]

Init ==
  /\ now = 0
  /\ last = Idle
  /\ call = NoCall
  /\ flight = NoInstance

\* The clock advances by one second.
Tick ==
  /\ last = Idle
  /\ call = NoCall
  /\ now < MaxNow
  /\ now' = now + 1
  /\ UNCHANGED <<last, call, flight>>

\* verifyWebhook(secret, headers, body, maxAge?)
VerifyWebhookCall ==
  /\ last = Idle
  /\ \E c \in WebhookCalls :
       last' = [op |-> "verifyWebhook",
                secret |-> c.secret, headers |-> c.headers, body |-> c.body,
                maxAge |-> c.maxAge, now |-> now,
                result |-> VerifyWebhook(c.secret, c.headers, c.body, c.maxAge, now)]
  /\ UNCHANGED <<now, call, flight>>

\* authenticateChannel(secret, key, socketId, channelName, channelData?)
AuthenticateChannelCall ==
  /\ last = Idle
  /\ \E secret \in Secrets, key \in Keys, socketId \in SocketIds,
        channelName \in ChannelNames, channelData \in ChannelDatas :
       last' = [op |-> "authenticateChannel",
                secret |-> secret, key |-> key, socketId |-> socketId,
                channelName |-> channelName, channelData |-> channelData,
                result |-> AuthenticateChannel(secret, key, socketId, channelName,
                                               channelData)]
  /\ UNCHANGED <<now, call, flight>>

\* signRequest(secret, method, path, body, timestamp)
SignRequestCall ==
  /\ last = Idle
  /\ \E secret \in Secrets, method \in Methods, path \in SignPaths,
        body \in RequestBodies, timestamp \in 0..MaxTimestamp :
       last' = [op |-> "signRequest",
                secret |-> secret, method |-> method, path |-> path,
                body |-> body, timestamp |-> timestamp,
                result |-> SignRequest(secret, method, path, body, timestamp)]
  /\ UNCHANGED <<now, call, flight>>

\* signChannel(secret, socketId, channelName, channelData?)
SignChannelCall ==
  /\ last = Idle
  /\ \E secret \in Secrets, socketId \in SocketIds,
        channelName \in ChannelNames, channelData \in ChannelDatas :
       last' = [op |-> "signChannel",
                secret |-> secret, socketId |-> socketId,
                channelName |-> channelName, channelData |-> channelData,
                result |-> SignChannel(secret, socketId, channelName, channelData)]
  /\ UNCHANGED <<now, call, flight>>

\* signWebhookPayload(secret, timestamp, payload)
SignWebhookPayloadCall ==
  /\ last = Idle
  /\ \E secret \in Secrets, timestamp \in Timestamps, payload \in Bodies :
       last' = [op |-> "signWebhookPayload",
                secret |-> secret, timestamp |-> timestamp, payload |-> payload,
                result |-> SignWebhookPayload(secret, timestamp, payload)]
  /\ UNCHANGED <<now, call, flight>>

\* The caller is done with the result.
Return ==
  /\ last # Idle
  /\ last' = Idle
  /\ UNCHANGED <<now, call, flight>>

Next ==
  \/ Tick
  \/ VerifyWebhookCall
  \/ AuthenticateChannelCall
  \/ SignRequestCall
  \/ SignChannelCall
  \/ SignWebhookPayloadCall
  \/ Return

Spec == Init /\ [][Next]_vars

(***************************************************************************)
(* The client: one call of trigger, getChannels or getChannel of an        *)
(* Apinator instance.  call holds the method, its arguments, the position  *)
(* of the call (fetching: awaiting fetch; reading: awaiting                *)
(* response.text(); settled), the calls of signRequest made (signed), the  *)
(* requests given to fetch (sent), the response and the outcome.           *)
(***************************************************************************)
Pending == [state |-> "pending"]

\* A public method runs up to its first await: it has thrown, or request()
\* has read the clock, signed and called fetch.
Start(op, client, params, step, timestamp) ==
  IF step.threw
  THEN [op |-> op, client |-> client, params |-> params, pc |-> "settled",
        signed |-> <<>>, sent |-> <<>>,
        status |-> NoNumber, text |-> Undefined,
        outcome |-> Rejected(step.error)]
  ELSE LET r == Request(client, step.method, step.path, step.body, timestamp)
       IN [op |-> op, client |-> client, params |-> params, pc |-> "fetching",
           signed |-> <<r.signed>>, sent |-> <<r.sent>>,
           status |-> NoNumber, text |-> Undefined,
           outcome |-> Pending]

\* client.trigger(params)
TriggerCall ==
  /\ call = NoCall
  /\ \E options \in ClientOptions, params \in TriggerParams :
       LET client == Apinator(options)
       IN call' = Start("trigger", client, params, Trigger(client, params), now)
  /\ UNCHANGED <<now, last, flight>>

\* client.getChannels(prefix?)
GetChannelsCall ==
  /\ call = NoCall
  /\ \E options \in ClientOptions, prefix \in Prefixes :
       LET client == Apinator(options)
       IN call' = Start("getChannels", client, prefix, GetChannels(client, prefix), now)
  /\ UNCHANGED <<now, last, flight>>

\* client.getChannel(channelName)
GetChannelCall ==
  /\ call = NoCall
  /\ \E options \in ClientOptions, channelName \in InfoChannelNames :
       LET client == Apinator(options)
       IN call' = Start("getChannel", client, JsString(channelName),
                        GetChannel(client, channelName), now)
  /\ UNCHANGED <<now, last, flight>>

\* await fetch(...) yields a response.
FetchResolves ==
  /\ call.pc = "fetching"
  /\ \E status \in Statuses :
       call' = [call EXCEPT !.pc = "reading", !.status = SomeNumber(status)]
  /\ UNCHANGED <<now, last, flight>>

\* Variant: a rejected fetch is tried again.
FetchRejectsAndRetries ==
  /\ call.pc = "fetching"
  /\ \E failure \in Failures :
       call' = [call EXCEPT !.sent = Append(@, @[1])]
  /\ UNCHANGED <<now, last, flight>>

\* await fetch(...) rejects.
FetchRejects ==
  /\ call.pc = "fetching"
  /\ \E failure \in Failures :
       call' = [call EXCEPT !.pc = "settled",
                            !.outcome = Finish(call.op, CatchRequest(Rejected(failure)))]
  /\ UNCHANGED <<now, last, flight>>

\* await response.text() yields the body; request() and the method finish.
TextResolves ==
  /\ call.pc = "reading"
  /\ \E responseText \in ResponseTexts :
       call' = [call EXCEPT !.pc = "settled", !.text = Some(responseText),
                            !.outcome = Finish(call.op,
                                          CatchRequest(Respond(call.status.v, responseText)))]
  /\ UNCHANGED <<now, last, flight>>

\* await response.text() rejects.
TextRejects ==
  /\ call.pc = "reading"
  /\ \E failure \in Failures :
       call' = [call EXCEPT !.pc = "settled",
                            !.outcome = Finish(call.op, CatchRequest(Rejected(failure)))]
  /\ UNCHANGED <<now, last, flight>>

\* The caller has seen the outcome.
CallReturn ==
  /\ call.pc = "settled"
  /\ call' = NoCall
  /\ UNCHANGED <<now, last, flight>>

NextClient ==
  \/ Tick
  \/ TriggerCall
  \/ GetChannelsCall
  \/ GetChannelCall
  \/ FetchResolves
  \/ FetchRejects
  \/ TextResolves
  \/ TextRejects
  \/ CallReturn

SpecClient == Init /\ [][NextClient]_vars

(***************************************************************************)
(* A caller that verifies the same webhook twice: it keeps the first       *)
(* verdict while the clock advances, then calls verifyWebhook again with    *)
(* the arguments of the first call.                                         *)
(***************************************************************************)
\* Time passes between the two calls.
Wait ==
  /\ last.op = "verifyWebhook"
  /\ now < MaxNow
  /\ now' = now + 1
  /\ UNCHANGED <<last, call, flight>>

\* verifyWebhook(secret, headers, body, maxAge?) with the arguments of the
\* call before; the function takes no current time, it reads Date.now().
VerifyWebhookAgain ==
  /\ last.op = "verifyWebhook"
  /\ last' = [op |-> "verifyWebhookAgain",
              secret |-> last.secret, headers |-> last.headers, body |-> last.body,
              maxAge |-> last.maxAge, now |-> now,
              result |-> VerifyWebhook(last.secret, last.headers, last.body,
                                       last.maxAge, now),
              first |-> [now |-> last.now, result |-> last.result]]
  /\ UNCHANGED <<now, call, flight>>

NextRepeat ==
  \/ Tick
  \/ VerifyWebhookCall
  \/ Wait
  \/ VerifyWebhookAgain
  \/ Return

SpecRepeat == Init /\ [][NextRepeat]_vars

(***************************************************************************)
(* One Apinator instance shared by several callers.  flight holds the      *)
(* instance (its options and its four fields) and, per caller, the call    *)
(* of trigger, getChannels or getChannel that is in flight, as call does   *)
(* for a single caller.  The awaits of the calls interleave in any order,  *)
(* the clock advances in between, and the synchronous methods              *)
(* authenticateChannel and verifyWebhook of the instance run between two   *)
(* awaits.                                                                 *)
(***************************************************************************)
\* The callers that share the instance.
Callers == {"a", "b"}

InstanceOptions ==
  {[appId |-> <<"7">>, key |-> <<"K">>, secret |-> s, cluster |-> <<"e", "u">>] : s \in Secrets}

\* The calls the callers make: [op, params].
InstanceCalls ==
  {[op |-> "trigger",
    params |-> [name |-> JsString(<<"e">>), data |-> JsString(<<"{", "\"", "a", "\"", ":", "1", "}">>),
                channel |-> JsString(<<"c">>), channels |-> JsUndefined,
                socketId |-> JsUndefined]],
   [op |-> "getChannels", params |-> JsString(<<"p", "-">>)],
   [op |-> "getChannel", params |-> JsString(<<"c">>)]}

InstanceStatuses == {200, 404}

InstanceTexts == {<<"o", "o", "p", "s">>}

InstanceFailures == {[name |-> "TypeError", message |-> <<"f", "e", "t", "c", "h", " ", "f", "a", "i", "l", "e", "d">>]}

InstanceChannelDatas == {Some(<<"d">>)}

\* Webhooks signed under the first secret for the second 1.
InstanceWebhooks ==
  {WebhookCall(<<"k">>,
               PlainHeaders(Sha256Prefix \o SignWebhookPayload(<<"k">>, <<"1">>, <<"a">>), <<"1">>),
               <<"a">>, m) : m \in {NoMaxAge}}

\* The method of a call run up to its call of request().
StepOf(client, c) ==
  IF c.op = "trigger" THEN Trigger(client, c.params)
  ELSE IF c.op = "getChannels" THEN GetChannels(client, c.params)
  ELSE GetChannel(client, c.params.str)

\* new Apinator(options)
Construct ==
  /\ flight = NoInstance
  /\ \E options \in InstanceOptions :
       flight' = [constructed |-> TRUE, options |-> options,
                  client |-> Apinator(options),
                  slots |-> [i \in Callers |-> NoCall]]
  /\ UNCHANGED <<now, last, call>>

\* A caller calls trigger, getChannels or getChannel of the instance.
SlotStart ==
  /\ flight.constructed
  /\ \E i \in Callers, c \in InstanceCalls :
       /\ flight.slots[i] = NoCall
       /\ flight' = [flight EXCEPT !.slots[i] =
                       Start(c.op, flight.client, c.params, StepOf(flight.client, c), now)]
  /\ UNCHANGED <<now, last, call>>

\* Variant: the response of one call is taken for every call that awaits one.
SlotFetchResolvesForAll ==
  /\ flight.constructed
  /\ \E i \in Callers, status \in InstanceStatuses :
       /\ flight.slots[i].pc = "fetching"
       /\ flight' = [flight EXCEPT !.slots =
                       [j \in Callers |->
                          IF flight.slots[j].pc = "fetching"
                          THEN [flight.slots[j] EXCEPT !.pc = "reading",
                                                       !.status = SomeNumber(status)]
                          ELSE flight.slots[j]]]
  /\ UNCHANGED <<now, last, call>>

\* The fetch of one call yields its response.
SlotFetchResolves ==
  /\ flight.constructed
  /\ \E i \in Callers, status \in InstanceStatuses :
       /\ flight.slots[i].pc = "fetching"
       /\ flight' = [flight EXCEPT !.slots[i] =
                       [@ EXCEPT !.pc = "reading", !.status = SomeNumber(status)]]
  /\ UNCHANGED <<now, last, call>>

\* The fetch of one call rejects.
SlotFetchRejects ==
  /\ flight.constructed
  /\ \E i \in Callers, failure \in InstanceFailures :
       /\ flight.slots[i].pc = "fetching"
       /\ flight' = [flight EXCEPT !.slots[i] =
                       [@ EXCEPT !.pc = "settled",
                                 !.outcome = Finish(flight.slots[i].op, CatchRequest(Rejected(failure)))]]
  /\ UNCHANGED <<now, last, call>>

\* response.text() of one call yields the body; the call settles.
SlotTextResolves ==
  /\ flight.constructed
  /\ \E i \in Callers, responseText \in InstanceTexts :
       /\ flight.slots[i].pc = "reading"
       /\ flight' = [flight EXCEPT !.slots[i] =
                       [@ EXCEPT !.pc = "settled", !.text = Some(responseText),
                                 !.outcome = Finish(flight.slots[i].op,
                                               CatchRequest(Respond(flight.slots[i].status.v,
                                                                    responseText)))]]
  /\ UNCHANGED <<now, last, call>>

\* response.text() of one call rejects.
SlotTextRejects ==
  /\ flight.constructed
  /\ \E i \in Callers, failure \in InstanceFailures :
       /\ flight.slots[i].pc = "reading"
       /\ flight' = [flight EXCEPT !.slots[i] =
                       [@ EXCEPT !.pc = "settled",
                                 !.outcome = Finish(flight.slots[i].op, CatchRequest(Rejected(failure)))]]
  /\ UNCHANGED <<now, last, call>>

\* The caller of a settled call has seen the outcome.
SlotReturn ==
  /\ flight.constructed
  /\ \E i \in Callers :
       /\ flight.slots[i].pc = "settled"
       /\ flight' = [flight EXCEPT !.slots[i] = NoCall]
  /\ UNCHANGED <<now, last, call>>

\* client.authenticateChannel(socketId, channelName, channelData?)
InstanceAuthenticateChannel ==
  /\ flight.constructed
  /\ last = Idle
  /\ \E channelData \in InstanceChannelDatas :
       last' = [op |-> "authenticateChannel",
                secret |-> flight.client.secret, key |-> flight.client.key,
                socketId |-> <<"1">>, channelName |-> <<"p">>,
                channelData |-> channelData,
                result |-> AuthenticateChannel(flight.client.secret, flight.client.key,
                                               <<"1">>, <<"p">>, channelData)]
  /\ UNCHANGED <<now, call, flight>>

\* client.verifyWebhook(headers, body, maxAge?)
InstanceVerifyWebhook ==
  /\ flight.constructed
  /\ last = Idle
  /\ \E c \in InstanceWebhooks :
       last' = [op |-> "verifyWebhook",
                secret |-> flight.client.secret, headers |-> c.headers, body |-> c.body,
                maxAge |-> c.maxAge, now |-> now,
                result |-> VerifyWebhook(flight.client.secret, c.headers, c.body,
                                         c.maxAge, now)]
  /\ UNCHANGED <<now, call, flight>>

NextInstance ==
  \/ Tick
  \/ Construct
  \/ SlotStart
  \/ SlotFetchResolves
  \/ SlotFetchRejects
  \/ SlotTextResolves
  \/ SlotTextRejects
  \/ SlotReturn
  \/ InstanceAuthenticateChannel
  \/ InstanceVerifyWebhook
  \/ Return

SpecInstance == Init /\ [][NextInstance]_vars

(***************************************************************************)
(* Properties.                                                             *)
(***************************************************************************)
IsVerify == last.op = "verifyWebhook"

IsAuth == last.op = "authenticateChannel"

\* The header map is the two lowercase names with plain string values.
IsPlain == Len(last.headers) = 2
           /\ last.headers = PlainHeaders(last.headers[1].v.str, last.headers[2].v.str)

SigText == last.headers[1].v.str

TsText == last.headers[2].v.str

\* The signature of the received timestamp header and body under the
\* verifier's secret.
Expected == SignWebhookPayload(last.secret, TsText, last.body)

CorrectlySigned == SigText \in {Expected, Sha256Prefix \o Expected}

\* The signature header without one leading "sha256=".
Claimed == IF StartsWith(SigText, Sha256Prefix) THEN Slice(SigText, 7) ELSE SigText

AllHex(h) == \A i \in 1..Len(h) : h[i] \in HexChars

\* C1 (as claimed): a correctly signed webhook is accepted without maxAge,
\* for every timestamp string.
C1_RoundTrip ==
  (IsVerify /\ IsPlain /\ ~last.maxAge.some /\ CorrectlySigned)
    => last.result = Returned(TRUE)

\* C1 (amended): a correctly signed webhook, bare or with the sha256= prefix,
\* is accepted without maxAge for every non-empty timestamp string.
C1_RoundTripNonEmptyTimestamp ==
  (IsVerify /\ IsPlain /\ ~last.maxAge.some /\ CorrectlySigned /\ TsText # <<>>)
    => last.result = Returned(TRUE)

C1_Witness ==
  /\ IsVerify /\ IsPlain /\ ~last.maxAge.some
  /\ TsText # <<>>
  /\ SigText = Sha256Prefix \o Expected
  /\ last.result = Returned(TRUE)

\* C2: verifyWebhook returns false whenever the claimed signature, the prefix
\* removed, is not valid hex (a non-hex character, an odd number of digits)
\* or does not decode to DigestBytes bytes.
C2_MalformedSignatureRejected ==
  (IsVerify /\ IsPlain
     /\ (~AllHex(Claimed) \/ Len(Claimed) % 2 = 1 \/ Len(Claimed) # 2 * DigestBytes))
    => last.result = Returned(FALSE)

\* C3: a signature made for another body, or under another secret, with the
\* same timestamp header, is rejected.
C3_TamperedRejected ==
  (IsVerify /\ IsPlain
     /\ \E s0 \in Secrets, b0 \in Bodies :
          /\ (s0 = last.secret /\ b0 # last.body) \/ (s0 # last.secret /\ b0 = last.body)
          /\ Claimed = SignWebhookPayload(s0, TsText, b0))
    => last.result = Returned(FALSE)

C3_Witness ==
  /\ IsVerify /\ IsPlain /\ ~last.maxAge.some
  /\ TsText = <<"1">>
  /\ last.body = <<"a">>
  /\ SigText = SignWebhookPayload(last.secret, TsText, <<".", "a">>)
  /\ last.result = Returned(FALSE)

HasStringValue(v) ==
  v.kind = "string" \/ (v.kind = "array" /\ \E i \in 1..Len(v.arr) : v.arr[i].some)

\* No entry named name, in any letter case, carries a string.
LacksString(headers, name) ==
  \A i \in 1..Len(headers) :
    ToLowerCase(headers[i].k) = name => ~HasStringValue(headers[i].v)

\* C4: verifyWebhook never throws, returns a boolean, and returns false when
\* the signature header or the timestamp header is absent or holds no string.
C4_TotalAndFalseOnMissingHeader ==
  IsVerify =>
    /\ ~last.result.threw
    /\ last.result.value \in BOOLEAN
    /\ (LacksString(last.headers, SignatureHeaderName)
          \/ LacksString(last.headers, TimestampHeaderName))
        => last.result.value = FALSE

C4_Witness ==
  /\ IsVerify
  /\ LacksString(last.headers, SignatureHeaderName)
  /\ ~LacksString(last.headers, TimestampHeaderName)
  /\ last.result = Returned(FALSE)

\* C5: with maxAge supplied and a correctly signed decimal timestamp t, the
\* verdict is TRUE exactly when 0 <= now - t <= maxAge; a negative maxAge
\* rejects every webhook.
C5_FreshnessWindow ==
  (IsVerify /\ IsPlain /\ last.maxAge.some /\ CorrectlySigned)
    => /\ \A t \in -1..MaxTimestamp :
            TsText = NumberToString(t)
              => last.result =
                   Returned(0 <= last.now - t /\ last.now - t <= last.maxAge.v)
       /\ last.maxAge.v < 0 => last.result = Returned(FALSE)

C5_Witness ==
  /\ IsVerify /\ IsPlain /\ last.maxAge.some /\ CorrectlySigned
  /\ last.maxAge.v = 1
  /\ TsText = NumberToString(last.now - 1)
  /\ last.result = Returned(TRUE)

\* An optional minus sign and one or more decimal digits.
IsBase10Integer(s) ==
  LET ds == IF s # <<>> /\ s[1] = "-" THEN Slice(s, 1) ELSE s
  IN ds # <<>> /\ \A i \in 1..Len(ds) : ds[i] \in DigitChars

\* C6: with maxAge supplied, a timestamp header that is not a base-10 integer
\* is rejected, also when the signature is correct for the raw header string.
C6_NonIntegerTimestampRejected ==
  (IsVerify /\ IsPlain /\ last.maxAge.some /\ CorrectlySigned /\ ~IsBase10Integer(TsText))
    => last.result = Returned(FALSE)

\* C7: without maxAge the verdict is the same at every current time, and
\* every non-empty timestamp string, numeric or not, is accepted when the
\* signature matches it and the body.
C7_NoFreshnessCheckWithoutMaxAge ==
  (IsVerify /\ IsPlain /\ ~last.maxAge.some)
    => /\ \A t \in 0..MaxNow :
            VerifyWebhook(last.secret, last.headers, last.body, last.maxAge, t)
              = last.result
       /\ (CorrectlySigned /\ TsText # <<>>) => last.result = Returned(TRUE)

C7_Witness ==
  /\ IsVerify /\ IsPlain /\ ~last.maxAge.some /\ CorrectlySigned
  /\ TsText = <<"x">>
  /\ last.now = MaxNow
  /\ last.result = Returned(TRUE)

\* The value is one string, plain or as a one-element array.
IsOneString(v) ==
  v.kind = "string" \/ (v.kind = "array" /\ Len(v.arr) = 1 /\ v.arr[1].some)

TextOf(v) == IF v.kind = "string" THEN v.str ELSE v.arr[1].v

\* The header map holds the two headers, in any letter case, each with one
\* string.
IsCased ==
  /\ Len(last.headers) = 2
  /\ ToLowerCase(last.headers[1].k) = SignatureHeaderName
  /\ ToLowerCase(last.headers[2].k) = TimestampHeaderName
  /\ IsOneString(last.headers[1].v)
  /\ IsOneString(last.headers[2].v)

\* C8: the verdict for header names in any letter case and values given as
\* one-element string arrays is the verdict for lowercase names with plain
\* string values.
C8_CaseAndShapeInsensitive ==
  (IsVerify /\ IsCased)
    => last.result =
         VerifyWebhook(last.secret,
                       PlainHeaders(TextOf(last.headers[1].v), TextOf(last.headers[2].v)),
                       last.body, last.maxAge, last.now)

C8_Witness ==
  /\ IsVerify /\ IsCased
  /\ last.headers[1].k \notin {SignatureHeaderName, ToUpperCase(SignatureHeaderName)}
  /\ last.headers[2].k # TimestampHeaderName
  /\ last.headers[1].v.kind = "array"
  /\ last.headers[2].v.kind = "array"
  /\ last.result = Returned(TRUE)

\* C9: for a hex value h the header values h and sha256=h get the same
\* verdict; a value with the prefix repeated, or written in another letter
\* case, is rejected.
C9_PrefixStrippedOnce ==
  (IsVerify /\ IsPlain)
    => /\ (StartsWith(SigText, Sha256Prefix) /\ AllHex(Slice(SigText, 7)))
            => last.result =
                 VerifyWebhook(last.secret, PlainHeaders(Slice(SigText, 7), TsText),
                               last.body, last.maxAge, last.now)
       /\ AllHex(SigText)
            => last.result =
                 VerifyWebhook(last.secret, PlainHeaders(Sha256Prefix \o SigText, TsText),
                               last.body, last.maxAge, last.now)
       /\ (\E p \in {Sha256Prefix \o Sha256Prefix, UpperPrefix} :
             StartsWith(SigText, p) /\ AllHex(Slice(SigText, Len(p))))
            => last.result = Returned(FALSE)

C9_Witness ==
  /\ IsVerify /\ IsPlain /\ ~last.maxAge.some
  /\ TsText # <<>>
  /\ SigText = Sha256Prefix \o Sha256Prefix \o Expected
  /\ last.result = Returned(FALSE)

IsLowerHexDigest(h) ==
  Len(h) = 2 * DigestBytes /\ \A i \in 1..Len(h) : h[i] \in LowerHexChars

\* C10: auth is key, a colon and the 64 lowercase hex digits of signChannel;
\* channel_data is there exactly when channelData was supplied (also as the
\* empty string) and holds it unchanged.
C10_AuthFormat ==
  IsAuth =>
    LET sig == SignChannel(last.secret, last.socketId, last.channelName, last.channelData)
    IN /\ last.result.auth = last.key \o <<":">> \o sig
       /\ IsLowerHexDigest(SubSeq(last.result.auth, Len(last.key) + 2,
                                  Len(last.result.auth)))
       /\ ("channel_data" \in DOMAIN last.result) = last.channelData.some
       /\ last.channelData.some => last.result.channel_data = last.channelData.v

C10_Witness ==
  /\ IsAuth
  /\ last.channelData = Some(<<>>)
  /\ "channel_data" \in DOMAIN last.result
  /\ last.result.channel_data = <<>>

IsSignChannel == last.op = "signChannel"

\* C11: signChannel signs socketId:channelName:channelData for every
\* supplied channelData, the empty string too, and socketId:channelName when
\* none is supplied; so a channel_data field returned by authenticateChannel
\* is the third field of the string signed in auth.
C11_ThreeFieldsWheneverSupplied ==
  /\ IsSignChannel =>
       last.result =
         HexEncode(HmacSha256(last.secret,
           IF last.channelData.some
           THEN last.socketId \o <<":">> \o last.channelName \o <<":">> \o last.channelData.v
           ELSE last.socketId \o <<":">> \o last.channelName))
  /\ (IsAuth /\ "channel_data" \in DOMAIN last.result) =>
       last.result.auth =
         last.key \o <<":">> \o
           HexEncode(HmacSha256(last.secret,
             last.socketId \o <<":">> \o last.channelName \o <<":">>
               \o last.result.channel_data))

IsSignRequest == last.op = "signRequest"

RECURSIVE JoinLines(_)
JoinLines(fields) ==
  IF Len(fields) = 1 THEN fields[1]
  ELSE fields[1] \o <<"\n">> \o JoinLines(Tail(fields))

\* The body digest of the canonical string.
BodyDigest(body) == IF body = <<>> THEN <<>> ELSE HexEncode(Md5(body))

\* C12: signRequest returns the hex HMAC-SHA256 under secret of timestamp
\* (decimal), method, path and bodyDigest joined by newlines, bodyDigest being
\* empty for the empty body and md5Hex(body) otherwise; for the empty body the
\* signed string ends with a newline and its signature is not the one of the
\* string built with the MD5 of zero bytes.
C12_CanonicalString ==
  IsSignRequest =>
    LET canonical == JoinLines(<<NatToString(last.timestamp), last.method,
                                 last.path, BodyDigest(last.body)>>)
        legacy == JoinLines(<<NatToString(last.timestamp), last.method,
                              last.path, HexEncode(Md5(<<>>))>>)
    IN /\ last.result = HexEncode(HmacSha256(last.secret, canonical))
       /\ Len(last.result) = 2 * DigestBytes
       /\ last.body = <<>> =>
            /\ canonical[Len(canonical)] = "\n"
            /\ canonical # legacy
            /\ last.result # HexEncode(HmacSha256(last.secret, legacy))

\* signRequest has returned for an empty body and a path with a query.
C12_Witness ==
  /\ IsSignRequest
  /\ last.body = <<>>
  /\ last.path = <<"/", "a", "?", "b">>
  /\ last.timestamp = MaxTimestamp

(***************************************************************************)
(* Properties of the client (SpecClient).                                  *)
(***************************************************************************)
InCall == call.pc # "none"

\* The path of a sent request: its URL without the host of the client.
PathOf(req) == SubSeq(req.url, Len(call.client.host) + 1, Len(req.url))

\* The body of a sent request as text.
BodyTextOf(req) == IF req.body.some THEN req.body.v ELSE <<>>

\* p is path cut at its first '?'.
IsCutAtFirstQuery(p, path) ==
  /\ \A i \in 1..Len(p) : p[i] # "?"
  /\ Len(p) <= Len(path)
  /\ SubSeq(path, 1, Len(p)) = p
  /\ Len(p) < Len(path) => path[Len(p) + 1] = "?"

\* The path with its query string that the method of the call asks for.
FullPath ==
  LET apps == <<"/", "a", "p", "p", "s", "/">> \o call.client.appId
  IN IF call.op = "trigger" THEN apps \o <<"/", "e", "v", "e", "n", "t", "s">>
     ELSE IF call.op = "getChannel"
     THEN apps \o <<"/", "c", "h", "a", "n", "n", "e", "l", "s", "/">> \o EncodeURIComponent(call.params.str)
     ELSE IF call.params.kind = "string" /\ call.params.str # <<>>
     THEN apps \o <<"/", "c", "h", "a", "n", "n", "e", "l", "s", "?", "f", "i", "l", "t", "e", "r", "_", "b", "y", "_", "p", "r", "e", "f", "i", "x", "=">> \o EncodeURIComponent(call.params.str)
     ELSE apps \o <<"/", "c", "h", "a", "n", "n", "e", "l", "s">>

\* C13: for every request the client sends, the signature header is
\* signRequest(secret, method, P, body, timestamp) with P the request path cut
\* at its first '?', the fetched URL is the host followed by the full path with
\* its query string, and the path that was signed holds no '?'.
C13_CanonicalPathSigned ==
  InCall =>
    \A i \in 1..Len(call.sent) :
      LET req == call.sent[i]
          P == call.signed[i].path
      IN /\ req.url = call.client.host \o FullPath
         /\ IsCutAtFirstQuery(P, PathOf(req))
         /\ req.headers["X-Realtime-Signature"] =
              SignRequest(call.client.secret, req.method, P, BodyTextOf(req),
                          call.signed[i].timestamp)

\* getChannels with a prefix has sent its request, whose URL has a query.
C13_Witness ==
  /\ InCall
  /\ call.op = "getChannels"
  /\ call.params = JsString(<<"p", "-">>)
  /\ Len(call.sent) = 1
  /\ \E i \in 1..Len(call.sent[1].url) : call.sent[1].url[i] = "?"

\* C14: every request the client sends carries the configured key in
\* X-Realtime-Key, in X-Realtime-Timestamp the decimal string of the very
\* timestamp that was given to signRequest for the signature it carries, and
\* in X-Realtime-Signature the bare lowercase hex digest, with no sha256=
\* prefix.
C14_HeaderBinding ==
  InCall =>
    /\ Len(call.signed) = Len(call.sent)
    /\ \A i \in 1..Len(call.sent) :
         LET req == call.sent[i]
             s == call.signed[i]
             sig == req.headers["X-Realtime-Signature"]
             ts == req.headers["X-Realtime-Timestamp"]
         IN /\ req.headers["X-Realtime-Key"] = call.client.key
            /\ ts # <<>>
            /\ \A j \in 1..Len(ts) : ts[j] \in DigitChars
            /\ DigitsValue(ts) = s.timestamp
            /\ Len(ts) > 1 => ts[1] # "0"
            /\ sig = SignRequest(call.client.secret, s.method, s.path, s.body, s.timestamp)
            /\ Len(sig) = 2 * DigestBytes
            /\ \A j \in 1..Len(sig) : sig[j] \in LowerHexChars
            /\ ~StartsWith(sig, Sha256Prefix)

\* trigger has sent its request after the clock has advanced.
C14_Witness ==
  /\ InCall
  /\ call.op = "trigger"
  /\ call.pc = "fetching"
  /\ Len(call.sent) = 1
  /\ call.signed[1].timestamp = MaxNow

Provided(x) == x.kind # "undefined"

IsTrigger == InCall /\ call.op = "trigger"

\* C15: trigger rejects with ValidationError and sends no request whenever
\* its params provide both channel and channels, or neither, whatever the
\* provided values are (the empty string and the empty array too).
C15_BothOrNeitherRejected ==
  (/\ IsTrigger
   /\ Provided(call.params.channel) = Provided(call.params.channels)) =>
    /\ call.sent = <<>>
    /\ call.pc = "settled"
    /\ call.outcome.state = "rejected"
    /\ call.outcome.error.name = "ValidationError"

\* The response of the call was received and its text was read.
ResponseRead == InCall /\ call.pc = "settled" /\ call.status.some /\ call.text.some

RejectedAs(name) == call.outcome.state = "rejected" /\ call.outcome.error.name = name

C18_SameVerdictWheneverCalled ==
  last.op = "verifyWebhookAgain" => last.result = last.first.result

IsSignWebhookPayload == last.op = "signWebhookPayload"

\* C19: changing one argument of signRequest (secret, method, path, body or
\* timestamp), the timestamp or the payload of signWebhookPayload, or the
\* socketId, the channelName or the supplied channelData of signChannel, the
\* other arguments staying as they are, changes the signature returned.
C19_Sensitivity ==
  /\ IsSignRequest =>
       /\ \A secret \in Secrets \ {last.secret} :
            SignRequest(secret, last.method, last.path, last.body, last.timestamp)
              # last.result
       /\ \A method \in Methods \ {last.method} :
            SignRequest(last.secret, method, last.path, last.body, last.timestamp)
              # last.result
       /\ \A path \in SignPaths \ {last.path} :
            SignRequest(last.secret, last.method, path, last.body, last.timestamp)
              # last.result
       /\ \A body \in RequestBodies \ {last.body} :
            SignRequest(last.secret, last.method, last.path, body, last.timestamp)
              # last.result
       /\ \A timestamp \in (0..MaxTimestamp) \ {last.timestamp} :
            SignRequest(last.secret, last.method, last.path, last.body, timestamp)
              # last.result
  /\ IsSignWebhookPayload =>
       /\ \A timestamp \in Timestamps \ {last.timestamp} :
            SignWebhookPayload(last.secret, timestamp, last.payload) # last.result
       /\ \A payload \in Bodies \ {last.payload} :
            SignWebhookPayload(last.secret, last.timestamp, payload) # last.result
  /\ IsSignChannel =>
       /\ \A socketId \in SocketIds \ {last.socketId} :
            SignChannel(last.secret, socketId, last.channelName, last.channelData)
              # last.result
       /\ \A channelName \in ChannelNames \ {last.channelName} :
            SignChannel(last.secret, last.socketId, channelName, last.channelData)
              # last.result
       /\ last.channelData.some =>
            \A channelData \in ChannelDatas \ {last.channelData} :
              channelData.some =>
                SignChannel(last.secret, last.socketId, last.channelName, channelData)
                  # last.result

\* signRequest has returned for a POST with a body.
C19_Witness ==
  /\ IsSignRequest
  /\ last.method = <<"P", "O", "S", "T">>
  /\ last.body = <<"b">>
  /\ last.timestamp = 1

\* The timestamp header parses to an integer inside the freshness window
\* without being the decimal form of that integer.
InWindowNotCanonical ==
  /\ IsVerify /\ IsPlain /\ last.maxAge.some
  /\ ParseInt(TsText).some
  /\ NumberToString(ParseInt(TsText).v) # TsText
  /\ 0 <= last.now - ParseInt(TsText).v
  /\ last.now - ParseInt(TsText).v <= last.maxAge.v

\* The signature of the decimal form of the parsed timestamp and the body.
NormalizedSignature ==
  SignWebhookPayload(last.secret, NumberToString(ParseInt(TsText).v), last.body)

\* C22: with maxAge supplied, a timestamp header that parses to an integer
\* inside the window but is not its decimal form is accepted with the
\* signature of the raw header string and the body, rejected with the
\* signature of the normalized integer string, and accepted only when the
\* signature header decodes to the digest of the raw string and the body.
C22_RawTimestampSigned ==
  InWindowNotCanonical =>
    /\ CorrectlySigned => last.result = Returned(TRUE)
    /\ SigText \in {NormalizedSignature, Sha256Prefix \o NormalizedSignature}
         => last.result = Returned(FALSE)
    /\ last.result = Returned(TRUE)
         => BufferFromHex(Claimed)
              = HmacSha256(last.secret, TsText \o <<".">> \o last.body)

\* A header "01" inside the window came with the signature made over "1".
C22_Witness ==
  /\ InWindowNotCanonical
  /\ TsText = <<"0", "1">>
  /\ SigText = Sha256Prefix \o NormalizedSignature
  /\ last.result = Returned(FALSE)

\* The string values that the entries of a header map carry under a name,
\* keys folded to lowercase, in the order of the entries; an array carries
\* its first string entry.
StringsUnder(headers, name) ==
  LET carries(i) ==
        /\ ToLowerCase(headers[i].k) = name
        /\ \/ headers[i].v.kind = "string"
           \/ headers[i].v.kind = "array" /\ \E j \in 1..Len(headers[i].v.arr) :
                                               headers[i].v.arr[j].some
      first(i) ==
        IF headers[i].v.kind = "string" THEN headers[i].v.str
        ELSE headers[i].v.arr[Min({j \in 1..Len(headers[i].v.arr) :
                                     headers[i].v.arr[j].some})].v
      at == {i \in 1..Len(headers) : carries(i)}
  IN IF at = {} THEN Undefined ELSE Some(first(Min(at)))

\* The mapping from lowercase name to first string-typed value, as a header
\* map.
Folded(headers) ==
  LET sig == StringsUnder(headers, SignatureHeaderName)
      ts == StringsUnder(headers, TimestampHeaderName)
  IN (IF sig.some THEN <<SigEntry(SignatureHeaderName, StringValue(sig.v))>> ELSE <<>>)
       \o (IF ts.some THEN <<SigEntry(TimestampHeaderName, StringValue(ts.v))>> ELSE <<>>)

\* C23: a header is looked up as in the mapping from lowercase name to first
\* string-typed value: it is found whenever one of the keys that equal its
\* name up to letter case carries a string, and the verdict is the one for
\* that mapping.
C23_FirstStringTypedValue ==
  IsVerify =>
    /\ GetHeaderCaseInsensitive(last.headers, SignatureHeaderName)
         = StringsUnder(last.headers, SignatureHeaderName)
    /\ GetHeaderCaseInsensitive(last.headers, TimestampHeaderName)
         = StringsUnder(last.headers, TimestampHeaderName)
    /\ last.result = VerifyWebhook(last.secret, Folded(last.headers), last.body,
                                   last.maxAge, last.now)

IsVerifyAgain == last.op = "verifyWebhookAgain"

\* C27: for a correctly signed integer timestamp t and maxAge >= 0, each of
\* two calls with the same arguments, the second made no earlier than the
\* first, returns TRUE exactly while t <= now <= t + maxAge; so after a call
\* that returned FALSE because the webhook was older than maxAge, the later
\* call returns FALSE.
C27_ExpiryIsPermanent ==
  (/\ IsVerifyAgain /\ IsPlain /\ CorrectlySigned
   /\ last.maxAge.some /\ last.maxAge.v >= 0) =>
    \A t \in -1..MaxTimestamp :
      TsText = NumberToString(t) =>
        /\ last.first.now <= last.now
        /\ last.first.result =
             Returned(t <= last.first.now /\ last.first.now <= t + last.maxAge.v)
        /\ last.result = Returned(t <= last.now /\ last.now <= t + last.maxAge.v)
        /\ (last.first.result = Returned(FALSE) /\ last.first.now > t + last.maxAge.v)
             => last.result = Returned(FALSE)

\* A webhook that had expired at the first call was verified again later.
C27_Witness ==
  /\ IsVerifyAgain /\ IsPlain /\ CorrectlySigned
  /\ last.maxAge = SomeNumber(0)
  /\ TsText = <<"0">>
  /\ last.first.now = 1
  /\ last.first.result = Returned(FALSE)
  /\ last.now > last.first.now
  /\ last.result = Returned(FALSE)

\* C28: for a fixed secret and key, a call of authenticateChannel with another
\* (socketId, channelName, channelData) triple, with or without channelData
\* and with ':' inside the strings, returns another auth value.
C28_AuthUnambiguous ==
  IsAuth =>
    \A socketId \in SocketIds, channelName \in ChannelNames, channelData \in ChannelDatas :
      <<socketId, channelName, channelData>>
          # <<last.socketId, last.channelName, last.channelData>>
        => AuthenticateChannel(last.secret, last.key, socketId, channelName,
                               channelData).auth
             # last.result.auth

\* C29: when verifyWebhook returns TRUE for a signature header that
\* signWebhookPayload(secret, ts0, body0) produced, the timestamp header is
\* ts0 and the body is body0, with and without maxAge and for strings that
\* hold '.'.
C29_BindsOnePair ==
  (IsVerify /\ IsPlain /\ last.result = Returned(TRUE)) =>
    \A ts0 \in Timestamps, body0 \in Bodies :
      Claimed = SignWebhookPayload(last.secret, ts0, body0)
        => ts0 = TsText /\ body0 = last.body

Settled == InCall /\ call.pc = "settled"

\* fetch or response.text() has rejected.
NetworkFailed == Settled /\ Len(call.sent) = 1 /\ ~call.text.some

OkResponseRead == ResponseRead /\ call.status.v >= 200 /\ call.status.v <= 299

\* C24: every rejection of trigger, getChannels and getChannel is a
\* RealtimeError or one of its subclasses, whatever the response body: a
\* failed fetch or text read is a RealtimeError "Network error: ...", an OK
\* response with a non-empty body that is no JSON is a RealtimeError, an OK
\* response with an empty body resolves, and the error of a failed response
\* is not wrapped as a network error.
C24_OnlySdkErrorsEscape ==
  Settled =>
    /\ call.outcome.state = "rejected" => IsSdkError(call.outcome.error)
    /\ NetworkFailed =>
         /\ RejectedAs("RealtimeError")
         /\ StartsWith(call.outcome.error.message, <<"N", "e", "t", "w", "o", "r", "k", " ", "e", "r", "r", "o", "r", ":", " ">>)
    /\ (OkResponseRead /\ call.text.v = <<>>) => call.outcome.state = "resolved"
    /\ (OkResponseRead /\ call.text.v = <<"o", "o", "p", "s">>) => RejectedAs("RealtimeError")
    /\ (ResponseRead /\ ~OkResponseRead) =>
         /\ call.outcome.state = "rejected"
         /\ ~StartsWith(call.outcome.error.message, <<"N", "e", "t", "w", "o", "r", "k", " ", "e", "r", "r", "o", "r", ":", " ">>)

\* C25: every request that trigger sends is a POST to /apps/{appId}/events
\* whose JSON body holds name and data as given, exactly one of channel and
\* channels, and socket_id exactly when a non-empty socketId was given; the
\* body string given to signRequest is the body string that is sent.
C25_TriggerRequest ==
  IsTrigger =>
    \A i \in 1..Len(call.sent) :
      LET req == call.sent[i]
          parsed == JsonParse(BodyTextOf(req))
          obj == parsed.value
          channel == Member(obj, <<"c", "h", "a", "n", "n", "e", "l">>)
          channels == Member(obj, <<"c", "h", "a", "n", "n", "e", "l", "s">>)
      IN /\ req.method = <<"P", "O", "S", "T">>
         /\ req.url = call.client.host \o <<"/", "a", "p", "p", "s", "/">> \o call.client.appId \o <<"/", "e", "v", "e", "n", "t", "s">>
         /\ req.body.some
         /\ ~parsed.threw
         /\ obj.kind = "object"
         /\ Member(obj, <<"n", "a", "m", "e">>) = call.params.name
         /\ Member(obj, <<"d", "a", "t", "a">>) = call.params.data
         /\ (channel = JsUndefined) # (channels = JsUndefined)
         /\ channel # JsUndefined => channel = call.params.channel
         /\ channels # JsUndefined => channels = call.params.channels
         /\ Member(obj, <<"s", "o", "c", "k", "e", "t", "_", "i", "d">>) =
              (IF call.params.socketId.kind = "string" /\ call.params.socketId.str # <<>>
               THEN call.params.socketId ELSE JsUndefined)
         /\ call.signed[i].body = req.body.v
         /\ req.headers["X-Realtime-Signature"] =
              SignRequest(call.client.secret, req.method, call.signed[i].path,
                          req.body.v, call.signed[i].timestamp)

\* trigger has sent a request for two channels that excludes a socket.
C25_Witness ==
  /\ IsTrigger
  /\ Len(call.sent) = 1
  /\ call.params.channels = JsArray(<<<<"c">>, <<"d">>>>)
  /\ call.params.socketId = JsString(<<"1", ".", "2">>)
  /\ call.params.channel = JsString(<<>>)

\* The params of the call pass the validation of its method.
ValidParams ==
  call.op = "trigger" => Truthy(call.params.channel) # Truthy(call.params.channels)

\* C26: a call of trigger with valid params, of getChannels or of getChannel
\* has issued exactly one request at every point from its first await to its
\* settlement, whatever the outcome; the request carries the signature
\* computed from the timestamp captured before it was sent.
C26_ExactlyOneRequest ==
  (InCall /\ ValidParams) =>
    /\ Len(call.sent) = 1
    /\ Len(call.signed) = 1
    /\ call.signed[1].timestamp <= now
    /\ call.sent[1].headers["X-Realtime-Timestamp"]
         = NumberToString(call.signed[1].timestamp)
    /\ call.sent[1].headers["X-Realtime-Signature"]
         = SignRequest(call.client.secret, call.signed[1].method, call.signed[1].path,
                       call.signed[1].body, call.signed[1].timestamp)
    /\ call.pc \in {"fetching", "reading", "settled"}

\* getChannel has settled after its fetch or its text read failed.
C26_Witness ==
  /\ NetworkFailed
  /\ call.op = "getChannel"
  /\ Len(call.sent) = 1
  /\ RejectedAs("RealtimeError")

\* What the call in the slot of caller i would be had it been the only call
\* of a fresh instance, started at the second its request was signed.
AloneCall(i) ==
  LET c == flight.slots[i]
      client == Apinator(flight.options)
  IN Start(c.op, client, c.params, StepOf(client, [op |-> c.op, params |-> c.params]),
           c.signed[1].timestamp)

\* The outcome of the call in the slot of caller i stems from its own
\* response: its status and text, or the failure of its fetch or text read.
OwnOutcome(i) ==
  LET c == flight.slots[i]
  IN IF c.pc # "settled" THEN c.outcome = Pending
     ELSE IF c.text # Undefined
     THEN c.outcome = Finish(c.op, CatchRequest(Respond(c.status.v, c.text.v)))
     ELSE \E failure \in InstanceFailures :
            c.outcome = Finish(c.op, CatchRequest(Rejected(failure)))

\* Every call in flight carries its own request and its own outcome, and a
\* synchronous call answers from the fields given to the constructor.
SlotsIsolated ==
  flight.constructed =>
    /\ flight.client = Apinator(flight.options)
    /\ \A i \in Callers :
         flight.slots[i] # NoCall =>
           /\ Len(flight.slots[i].signed) = 1
           /\ flight.slots[i].signed[1].timestamp <= now
           /\ flight.slots[i].signed = AloneCall(i).signed
           /\ flight.slots[i].sent = AloneCall(i).sent
           /\ flight.slots[i].client = flight.client
           /\ OwnOutcome(i)
    /\ last.op = "authenticateChannel" =>
         last.result = AuthenticateChannel(flight.options.secret, flight.options.key,
                                           last.socketId, last.channelName,
                                           last.channelData)
    /\ last.op = "verifyWebhook" =>
         last.result = VerifyWebhook(flight.options.secret, last.headers, last.body,
                                     last.maxAge, last.now)

\* A step of the instance touches the call of at most one caller, leaves the
\* request of every call that stays in flight as it was sent, and leaves the
\* fields of the instance alone; a synchronous call touches no call in flight.
StepIsolated ==
  flight.constructed =>
    /\ flight'.constructed
    /\ flight'.options = flight.options
    /\ flight'.client = flight.client
    /\ Cardinality({i \in Callers : flight'.slots[i] # flight.slots[i]}) <= 1
    /\ \A i \in Callers :
         (flight.slots[i] # NoCall /\ flight'.slots[i] # NoCall) =>
           /\ flight'.slots[i].op = flight.slots[i].op
           /\ flight'.slots[i].params = flight.slots[i].params
           /\ flight'.slots[i].signed = flight.slots[i].signed
           /\ flight'.slots[i].sent = flight.slots[i].sent
           /\ (flight.slots[i].status # NoNumber =>
                 flight'.slots[i].status = flight.slots[i].status)
           /\ (flight.slots[i].pc = "settled" => flight'.slots[i] = flight.slots[i])
    /\ last' # last => flight' = flight

\* C30: with calls of several callers in flight on one instance, under every
\* interleaving of their awaits, each request sent is the request the call
\* would have sent alone (signature, timestamp header, URL and body), each
\* outcome stems from the call's own response, every step touches the call
\* of one caller only, and appId, key, secret and host stay what the
\* constructor set; authenticateChannel and verifyWebhook answer from those
\* fields whatever is in flight.
C30_ConcurrentCallsIsolated == [](SlotsIsolated) /\ [][StepIsolated]_vars

\* Two calls of different methods, signed at different seconds, are in flight
\* at once, the earlier one still awaiting its response text after a 200, the
\* later one settled by a 404, while authenticateChannel has just returned.
C30_Witness ==
  /\ flight.constructed
  /\ flight.slots["a"] # NoCall
  /\ flight.slots["b"] # NoCall
  /\ flight.slots["a"].op = "trigger"
  /\ flight.slots["b"].op = "getChannel"
  /\ flight.slots["a"].signed[1].timestamp < flight.slots["b"].signed[1].timestamp
  /\ flight.slots["a"].pc = "reading"
  /\ flight.slots["a"].status = SomeNumber(200)
  /\ flight.slots["b"].pc = "settled"
  /\ flight.slots["b"].status = SomeNumber(404)
  /\ flight.slots["b"].outcome.state = "rejected"
  /\ last.op = "authenticateChannel"

\* The call in the slot of caller i as an instance constructed with the given
\* secret, and otherwise the same options, would have started it at the same
\* second.
CallUnder(secret, i) ==
  LET c == flight.slots[i]
      client == Apinator([flight.options EXCEPT !.secret = secret])
  IN Start(c.op, client, c.params, StepOf(client, [op |-> c.op, params |-> c.params]),
           c.signed[1].timestamp)

\* A request sent, its signature value aside.
SignatureAside(sent) ==
  [sent EXCEPT !.headers = [h \in DOMAIN sent.headers |->
                              IF h = "X-Realtime-Signature" THEN <<>> ELSE sent.headers[h]]]

\* An auth response, its signature value aside: the key and the colon stay.
AuthSignatureAside(response, key) ==
  [response EXCEPT !.auth = SubSeq(@, 1, Len(key) + 1)]

\* C21: whatever secret the instance was constructed with, the outputs are the
\* same but for signature values and the verdict of the verifier: the URL,
\* method, body and headers of every request sent (the signature header aside,
\* which is the digest of signRequest and as long under every secret), what
\* signRequest was asked to sign, the outcome and error message of every
\* settled call, and the auth string (its digest aside) and channel_data of
\* authenticateChannel.
C21_OnlySignaturesDependOnSecret ==
  flight.constructed =>
    \A secret \in Secrets \ {flight.options.secret} :
      /\ \A i \in Callers :
           flight.slots[i] # NoCall =>
             LET c == flight.slots[i]
                 other == CallUnder(secret, i)
             IN /\ SignatureAside(c.sent[1]) = SignatureAside(other.sent[1])
                /\ c.signed = other.signed
                /\ c.sent[1].headers["X-Realtime-Signature"]
                     = SignRequest(flight.options.secret, c.signed[1].method,
                                   c.signed[1].path, c.signed[1].body,
                                   c.signed[1].timestamp)
                /\ Len(c.sent[1].headers["X-Realtime-Signature"])
                     = Len(other.sent[1].headers["X-Realtime-Signature"])
                /\ OwnOutcome(i)
      /\ last.op = "authenticateChannel" =>
           LET other == AuthenticateChannel(secret, last.key, last.socketId,
                                            last.channelName, last.channelData)
           IN /\ AuthSignatureAside(last.result, last.key)
                   = AuthSignatureAside(other, last.key)
              /\ Len(last.result.auth) = Len(other.auth)
              /\ last.result.auth
                   = last.key \o <<":">>
                       \o SignChannel(flight.options.secret, last.socketId,
                                      last.channelName, last.channelData)
      /\ last.op = "verifyWebhook" =>
           /\ ~last.result.threw
           /\ last.result.value \in BOOLEAN

\* An instance constructed with the second secret has a trigger in flight
\* whose signature differs from the one the first secret would give, a
\* getChannels settled with the error of its response, and has just returned
\* an auth response whose digest differs from the first secret's.
C21_Witness ==
  /\ flight.constructed
  /\ flight.options.secret = <<"w">>
  /\ flight.slots["a"] # NoCall
  /\ flight.slots["a"].op = "trigger"
  /\ flight.slots["a"].sent[1].headers["X-Realtime-Signature"]
       # CallUnder(<<"k">>, "a").sent[1].headers["X-Realtime-Signature"]
  /\ flight.slots["b"] # NoCall
  /\ flight.slots["b"].op = "getChannels"
  /\ flight.slots["b"].pc = "settled"
  /\ flight.slots["b"].outcome.state = "rejected"
  /\ last.op = "authenticateChannel"
  /\ last.result.auth
       # AuthenticateChannel(<<"k">>, last.key, last.socketId, last.channelName,
                             last.channelData).auth

====
